---- MODULE Spec2Model ----
(***************************************************************************)
(* The CSI classifier and encoder of src/src/escape/csi.rs, and the        *)
(* colours of src/termwiz/src/color.rs.                                    *)
(*                                                                         *)
(* A signed 64-bit parameter is kept as a sign and a decimal magnitude     *)
(* ([neg |-> BOOLEAN, mag |-> sequence of digits], no leading zero, zero   *)
(* is never negative), so that values around 2^32 and their decimal text   *)
(* are exact.  Bytes are numbers 0..255; an encoded escape sequence is a   *)
(* sequence of bytes.                                                      *)
(***************************************************************************)
EXTENDS Integers, Sequences, FiniteSets, TLC

VARIABLES
    control,                      \* CSIParser.control (a byte, ASCII)
    intermediates,                \* CSIParser.intermediates
    ignored_extra_intermediates,  \* CSIParser.ignored_extra_intermediates
    params,                       \* CSIParser.params : Option<&[i64]>
    input,                        \* the params argument given to CSI::parse
    actions,                      \* the items the iterator has yielded so far
    seen,                         \* the slice taken by each call of next() that found one
    panicked,                     \* a step aborted (slice index out of range)
    after_end,                    \* calls of next() answered None
    pc,                           \* "parsing", "encoded", "redecoded"
    encoded,                      \* the bytes of the yielded actions, encoded in order
    redecoded,                    \* the actions got back from the encoded bytes
    rgb_args,                     \* the constructor call that made rgb
    rgb,                          \* an RgbColor (Option)
    rgb8,                         \* what to_tuple_rgb8 returned for rgb
    rgb_text,                     \* a colour string (characters as code points)
    parsed                        \* what from_rgb_str / from_named_or_rgb_string returned

color_vars == <<rgb_args, rgb, rgb8, rgb_text, parsed>>

vars == <<control, intermediates, ignored_extra_intermediates, params, input,
          actions, seen, panicked, after_end, pc, encoded, redecoded,
          color_vars>>

----------------------------------------------------------------------------
(* Bounds of the model *)

MaxSgrLen == 5      \* longest parameter list of the long SGR inputs
MaxShortLen == 2    \* longest parameter list of the inputs over every control
MaxCode == 108      \* single-parameter SGR inputs run over -1..MaxCode
MaxAfterEnd == 2    \* calls of next() made after the iterator is exhausted
MaxPositionLen == 3 \* longest parameter list of the inputs of R, H and W
MaxTabCode == 8     \* single-parameter inputs of W run over -1..MaxTabCode

----------------------------------------------------------------------------
(* Signed 64-bit values as sign and decimal magnitude *)

RECURSIVE NatDigits(_)
NatDigits(n) == IF n < 10 THEN <<n>> ELSE Append(NatDigits(n \div 10), n % 10)

\* The i64 of a small model integer.
I(n) == IF n < 0 THEN [neg |-> TRUE, mag |-> NatDigits(0 - n)]
                 ELSE [neg |-> FALSE, mag |-> NatDigits(n)]

RECURSIVE MagLess(_, _, _)
MagLess(a, b, i) ==
    IF i > Len(a) THEN FALSE
    ELSE IF a[i] # b[i] THEN a[i] < b[i]
    ELSE MagLess(a, b, i + 1)

\* a < b on magnitudes
MagLt(a, b) ==
    IF Len(a) # Len(b) THEN Len(a) < Len(b) ELSE MagLess(a, b, 1)

\* a <= b on i64 values
Le(a, b) ==
    IF a.neg /\ ~b.neg THEN TRUE
    ELSE IF ~a.neg /\ b.neg THEN FALSE
    ELSE IF a.neg THEN ~MagLt(a.mag, b.mag)
    ELSE ~MagLt(b.mag, a.mag)

RECURSIVE MagMod(_, _, _, _)
MagMod(m, i, acc, base) ==
    IF i > Len(m) THEN acc
    ELSE MagMod(m, i + 1, (acc * 10 + m[i]) % base, base)

\* The model integer of a value known to be small (at most 9 digits).
Small(v) ==
    LET n == MagMod(v.mag, 1, 0, 1000000000) IN IF v.neg THEN 0 - n ELSE n

IsSmall(v) == Len(v.mag) <= 9

U8Max == I(255)
U32Max == [neg |-> FALSE, mag |-> <<4, 2, 9, 4, 9, 6, 7, 2, 9, 5>>]

\* Rust's `v as u8` on an i64: the low 8 bits (two's complement).
AsU8(v) ==
    LET m == MagMod(v.mag, 1, 0, 256) IN IF v.neg THEN (256 - m) % 256 ELSE m

\* A little helper to convert i64 -> u8 if safe
to_u8(v) ==
    IF Le(v, U8Max) THEN [ok |-> TRUE, v |-> AsU8(v)]
                    ELSE [ok |-> FALSE, v |-> 0]

\* to_u32 with the upper test alone, as to_u8 has it
to_u32_no_lower(v) ==
    IF Le(v, U32Max) THEN [ok |-> TRUE, v |-> v]
                     ELSE [ok |-> FALSE, v |-> I(0)]

to_u32(v) ==
    IF Le(I(0), v) /\ Le(v, U32Max) THEN [ok |-> TRUE, v |-> v]
                                    ELSE [ok |-> FALSE, v |-> I(0)]

----------------------------------------------------------------------------
(* Text: ASCII bytes, and Rust's Display of integers *)

Ascii == [ESC |-> 27, SP |-> 32, Dollar |-> 36, Minus |-> 45, Zero |-> 48,
          Semi |-> 59, LBracket |-> 91,
          A |-> 65, B |-> 66, C |-> 67, D |-> 68, E |-> 69, F |-> 70,
          G |-> 71, H |-> 72, I |-> 73, R |-> 82, W |-> 87, Y |-> 89,
          Z |-> 90, m |-> 109, q |-> 113]

\* write!(w, "{}", v) of an unsigned value given as a model integer
FmtNat(n) == [i \in 1..Len(NatDigits(n)) |-> Ascii.Zero + NatDigits(n)[i]]

\* write!(w, "{}", v) of an i64 or u32 kept as sign and magnitude
FmtInt(v) ==
    (IF v.neg THEN <<Ascii.Minus>> ELSE <<>>)
        \o [i \in 1..Len(v.mag) |-> Ascii.Zero + v.mag[i]]

----------------------------------------------------------------------------
(* Colours (src/termwiz/src/color.rs) and SGR values *)

AnsiColor == [Black |-> 0, Maroon |-> 1, Green |-> 2, Olive |-> 3,
              Navy |-> 4, Purple |-> 5, Teal |-> 6, Silver |-> 7,
              Grey |-> 8, Red |-> 9, Lime |-> 10, Yellow |-> 11,
              Blue |-> 12, Fuschia |-> 13, Aqua |-> 14, White |-> 15]

\* num::FromPrimitive::from_u8 for AnsiColor: the name of index idx, or "None"
AnsiFromU8(idx) ==
    IF \E a \in DOMAIN AnsiColor : AnsiColor[a] = idx
    THEN CHOOSE a \in DOMAIN AnsiColor : AnsiColor[a] = idx
    ELSE "None"

\* An Sgr value: tag is the variant, arg the inner variant, n a u8 payload
\* (font number or palette index), red/green/blue the TrueColor channels.
SgrVal(tag, arg, n, r, g, b) ==
    [tag |-> tag, arg |-> arg, n |-> n, red |-> r, green |-> g, blue |-> b]

Sgr0(tag, arg) == SgrVal(tag, arg, 0, 0, 0, 0)
SgrReset == Sgr0("Reset", "")
SgrFontAlt(n) == SgrVal("Font", "Alternate", n, 0, 0, 0)
\* ColorSpec::PaletteIndex(idx) and ColorSpec::TrueColor(RgbColor) under
\* Sgr::Foreground / Sgr::Background (tag)
SgrPalette(tag, idx) == SgrVal(tag, "PaletteIndex", idx, 0, 0, 0)
SgrTrueColor(tag, r, g, b) == SgrVal(tag, "TrueColor", 0, r, g, b)
\* impl From<AnsiColor> for ColorSpec
SgrAnsi(tag, name) == SgrPalette(tag, AnsiColor[name])

SgrCode ==
    [Reset |-> 0, IntensityBold |-> 1, IntensityDim |-> 2, ItalicOn |-> 3,
     UnderlineOn |-> 4, BlinkOn |-> 5, RapidBlinkOn |-> 6, InverseOn |-> 7,
     InvisibleOn |-> 8, StrikeThroughOn |-> 9, DefaultFont |-> 10,
     AltFont1 |-> 11, AltFont2 |-> 12, AltFont3 |-> 13, AltFont4 |-> 14,
     AltFont5 |-> 15, AltFont6 |-> 16, AltFont7 |-> 17, AltFont8 |-> 18,
     AltFont9 |-> 19, UnderlineDouble |-> 21, NormalIntensity |-> 22,
     ItalicOff |-> 23, UnderlineOff |-> 24, BlinkOff |-> 25,
     InverseOff |-> 27, InvisibleOff |-> 28, StrikeThroughOff |-> 29,
     ForegroundBlack |-> 30, ForegroundRed |-> 31, ForegroundGreen |-> 32,
     ForegroundYellow |-> 33, ForegroundBlue |-> 34,
     ForegroundMagenta |-> 35, ForegroundCyan |-> 36,
     ForegroundWhite |-> 37, ForegroundDefault |-> 39,
     BackgroundBlack |-> 40, BackgroundRed |-> 41, BackgroundGreen |-> 42,
     BackgroundYellow |-> 43, BackgroundBlue |-> 44,
     BackgroundMagenta |-> 45, BackgroundCyan |-> 46,
     BackgroundWhite |-> 47, BackgroundDefault |-> 49,
     ForegroundBrightBlack |-> 90, ForegroundBrightRed |-> 91,
     ForegroundBrightGreen |-> 92, ForegroundBrightYellow |-> 93,
     ForegroundBrightBlue |-> 94, ForegroundBrightMagenta |-> 95,
     ForegroundBrightCyan |-> 96, ForegroundBrightWhite |-> 97,
     BackgroundBrightBlack |-> 100, BackgroundBrightRed |-> 101,
     BackgroundBrightGreen |-> 102, BackgroundBrightYellow |-> 103,
     BackgroundBrightBlue |-> 104, BackgroundBrightMagenta |-> 105,
     BackgroundBrightCyan |-> 106, BackgroundBrightWhite |-> 107,
     ForegroundColor |-> 38, BackgroundColor |-> 48]

\* num::FromPrimitive::from_i64 for SgrCode: the variant of v, or "None"
SgrCodeFromI64(v) ==
    IF IsSmall(v) /\ \E c \in DOMAIN SgrCode : SgrCode[c] = Small(v)
    THEN CHOOSE c \in DOMAIN SgrCode : SgrCode[c] = Small(v)
    ELSE "None"

\* The arms of CSIParser::sgr that consume a single parameter (one!).
OneSgr ==
    [Reset |-> SgrReset,
     IntensityBold |-> Sgr0("Intensity", "Bold"),
     IntensityDim |-> Sgr0("Intensity", "Half"),
     NormalIntensity |-> Sgr0("Intensity", "Normal"),
     UnderlineOn |-> Sgr0("Underline", "Single"),
     UnderlineDouble |-> Sgr0("Underline", "Double"),
     UnderlineOff |-> Sgr0("Underline", "None"),
     BlinkOn |-> Sgr0("Blink", "Slow"),
     RapidBlinkOn |-> Sgr0("Blink", "Rapid"),
     BlinkOff |-> Sgr0("Blink", "None"),
     ItalicOn |-> Sgr0("Italic", "true"),
     ItalicOff |-> Sgr0("Italic", "false"),
     ForegroundBlack |-> SgrAnsi("Foreground", "Black"),
     ForegroundRed |-> SgrAnsi("Foreground", "Maroon"),
     ForegroundGreen |-> SgrAnsi("Foreground", "Green"),
     ForegroundYellow |-> SgrAnsi("Foreground", "Olive"),
     ForegroundBlue |-> SgrAnsi("Foreground", "Navy"),
     ForegroundMagenta |-> SgrAnsi("Foreground", "Purple"),
     ForegroundCyan |-> SgrAnsi("Foreground", "Teal"),
     ForegroundWhite |-> SgrAnsi("Foreground", "Silver"),
     ForegroundDefault |-> Sgr0("Foreground", "Default"),
     ForegroundBrightBlack |-> SgrAnsi("Foreground", "Grey"),
     ForegroundBrightRed |-> SgrAnsi("Foreground", "Red"),
     ForegroundBrightGreen |-> SgrAnsi("Foreground", "Lime"),
     ForegroundBrightYellow |-> SgrAnsi("Foreground", "Yellow"),
     ForegroundBrightBlue |-> SgrAnsi("Foreground", "Blue"),
     ForegroundBrightMagenta |-> SgrAnsi("Foreground", "Fuschia"),
     ForegroundBrightCyan |-> SgrAnsi("Foreground", "Aqua"),
     ForegroundBrightWhite |-> SgrAnsi("Foreground", "White"),
     BackgroundBlack |-> SgrAnsi("Background", "Black"),
     BackgroundRed |-> SgrAnsi("Background", "Maroon"),
     BackgroundGreen |-> SgrAnsi("Background", "Green"),
     BackgroundYellow |-> SgrAnsi("Background", "Olive"),
     BackgroundBlue |-> SgrAnsi("Background", "Navy"),
     BackgroundMagenta |-> SgrAnsi("Background", "Purple"),
     BackgroundCyan |-> SgrAnsi("Background", "Teal"),
     BackgroundWhite |-> SgrAnsi("Background", "Silver"),
     BackgroundDefault |-> Sgr0("Background", "Default"),
     BackgroundBrightBlack |-> SgrAnsi("Background", "Grey"),
     BackgroundBrightRed |-> SgrAnsi("Background", "Red"),
     BackgroundBrightGreen |-> SgrAnsi("Background", "Lime"),
     BackgroundBrightYellow |-> SgrAnsi("Background", "Yellow"),
     BackgroundBrightBlue |-> SgrAnsi("Background", "Blue"),
     BackgroundBrightMagenta |-> SgrAnsi("Background", "Fuschia"),
     BackgroundBrightCyan |-> SgrAnsi("Background", "Aqua"),
     BackgroundBrightWhite |-> SgrAnsi("Background", "White"),
     InverseOn |-> Sgr0("Inverse", "true"),
     InverseOff |-> Sgr0("Inverse", "false"),
     InvisibleOn |-> Sgr0("Invisible", "true"),
     InvisibleOff |-> Sgr0("Invisible", "false"),
     StrikeThroughOn |-> Sgr0("StrikeThrough", "true"),
     StrikeThroughOff |-> Sgr0("StrikeThrough", "false"),
     DefaultFont |-> Sgr0("Font", "Default"),
     AltFont1 |-> SgrFontAlt(1), AltFont2 |-> SgrFontAlt(2),
     AltFont3 |-> SgrFontAlt(3), AltFont4 |-> SgrFontAlt(4),
     AltFont5 |-> SgrFontAlt(5), AltFont6 |-> SgrFontAlt(6),
     AltFont7 |-> SgrFontAlt(7), AltFont8 |-> SgrFontAlt(8),
     AltFont9 |-> SgrFontAlt(9)]

----------------------------------------------------------------------------
(* Cursor values and CSI actions *)

CursorTabulationControl ==
    [SetCharacterTabStopAtActivePosition |-> 0,
     SetLineTabStopAtActiveLine |-> 1,
     ClearCharacterTabStopAtActivePosition |-> 2,
     ClearLineTabstopAtActiveLine |-> 3,
     ClearAllCharacterTabStopsAtActiveLine |-> 4,
     ClearAllCharacterTabStops |-> 5,
     ClearAllLineTabStops |-> 6]

\* from_i64 taking every code above 6 as the last mode
TabulationFromI64_saturating(v) ==
    IF v.neg THEN "None"
    ELSE IF IsSmall(v) /\ \E t \in DOMAIN CursorTabulationControl :
                             CursorTabulationControl[t] = Small(v)
    THEN CHOOSE t \in DOMAIN CursorTabulationControl :
                             CursorTabulationControl[t] = Small(v)
    ELSE "ClearAllLineTabStops"

\* num::FromPrimitive::from_i64 for CursorTabulationControl, or "None"
TabulationFromI64(v) ==
    IF IsSmall(v) /\ \E t \in DOMAIN CursorTabulationControl :
                        CursorTabulationControl[t] = Small(v)
    THEN CHOOSE t \in DOMAIN CursorTabulationControl :
                        CursorTabulationControl[t] = Small(v)
    ELSE "None"

\* A Cursor value: n is the u32 of the one-field variants, line and col
\* those of Position and ActivePositionReport, mode the tabulation mode.
CursorVal(tag, n, line, col, mode) ==
    [tag |-> tag, n |-> n, line |-> line, col |-> col, mode |-> mode]

CursorN(tag, n) == CursorVal(tag, n, I(0), I(0), "")
CursorAt(tag, line, col) == CursorVal(tag, I(0), line, col, "")
CursorTab(mode) == CursorVal("TabulationControl", I(0), I(0), I(0), mode)

NoSgr == Sgr0("", "")
NoCursor == CursorN("", I(0))

\* enum CSI
CsiSgr(s) ==
    [kind |-> "Sgr", sgr |-> s, cursor |-> NoCursor, params |-> <<>>,
     intermediates |-> <<>>, ignored_extra_intermediates |-> FALSE,
     control |-> 0]
CsiCursor(c) ==
    [kind |-> "Cursor", sgr |-> NoSgr, cursor |-> c, params |-> <<>>,
     intermediates |-> <<>>, ignored_extra_intermediates |-> FALSE,
     control |-> 0]
CsiUnspecified(ps, is, flag, ctl) ==
    [kind |-> "Unspecified", sgr |-> NoSgr, cursor |-> NoCursor,
     params |-> ps, intermediates |-> is,
     ignored_extra_intermediates |-> flag, control |-> ctl]
NoCsi == CsiUnspecified(<<>>, <<>>, FALSE, 0)

\* Option<&[i64]>
None == [some |-> FALSE, slice |-> <<>>]
Some(s) == [some |-> TRUE, slice |-> s]

----------------------------------------------------------------------------
(* CSIParser: each operator takes the parser's params field (self_params)  *)
(* and returns it as the call leaves it, beside the call's result.         *)

\* advance_by with the emptiness test left out
advance_by_to_empty(n, ps, self_params) ==
    IF n > Len(ps) THEN [panic |-> TRUE, self |-> self_params]
    ELSE [panic |-> FALSE, self |-> Some(SubSeq(ps, n + 1, Len(ps)))]

\* params.split_at(n) aborts when n exceeds the length of the slice.
advance_by(n, ps, self_params) ==
    IF n > Len(ps) THEN [panic |-> TRUE, self |-> self_params]
    ELSE LET next == SubSeq(ps, n + 1, Len(ps))
         IN  [panic |-> FALSE,
              self |-> IF next # <<>> THEN Some(next) ELSE self_params]

SgrResult(ok, panic, s, self_params) ==
    [ok |-> ok, panic |-> panic, sgr |-> s, self |-> self_params]

SgrErr(self_params) == SgrResult(FALSE, FALSE, NoSgr, self_params)

\* Ok(self.advance_by(n, params, s)), adv being what advance_by returns
Advanced(s, adv) == SgrResult(TRUE, adv.panic, s, adv.self)

\* The true-colour arm of parse_sgr_color, the three channels converted
TrueColorArm(tag, red, green, blue, ps, self_params) ==
    IF ~red.ok \/ ~green.ok \/ ~blue.ok THEN SgrErr(self_params)
    ELSE Advanced(SgrTrueColor(tag, red.v, green.v, blue.v),
                  advance_by(5, ps, self_params))

\* PaletteArm advancing past the selector alone
PaletteArm_advance_one(tag, idx, ps, self_params) ==
    IF ~idx.ok THEN SgrErr(self_params)
    ELSE Advanced(SgrPalette(tag, idx.v), advance_by(1, ps, self_params))

\* The palette arm of parse_sgr_color, the index converted
PaletteArm(tag, idx, ps, self_params) ==
    IF ~idx.ok THEN SgrErr(self_params)
    ELSE Advanced(SgrPalette(tag, idx.v), advance_by(3, ps, self_params))

\* The result is the colour as an Sgr value under `tag` (Foreground or
\* Background), which is what both callers map it to.
parse_sgr_color(tag, ps, self_params) ==
    IF Len(ps) >= 5 /\ ps[2] = I(2)
    THEN TrueColorArm(tag, to_u8(ps[3]), to_u8(ps[4]), to_u8(ps[5]), ps,
                      self_params)
    ELSE IF Len(ps) >= 3 /\ ps[2] = I(5)
    THEN PaletteArm(tag, to_u8(ps[3]), ps, self_params)
    ELSE SgrErr(self_params)

\* The match of CSIParser::sgr on the code of the first parameter
SgrArm(code, ps, self_params) ==
    IF code = "None" THEN SgrErr(self_params)
    ELSE IF code = "ForegroundColor"
    THEN parse_sgr_color("Foreground", ps, self_params)
    ELSE IF code = "BackgroundColor"
    THEN parse_sgr_color("Background", ps, self_params)
    ELSE Advanced(OneSgr[code], advance_by(1, ps, self_params))

\* sgr without the arm for the empty list
sgr_no_default(ps, self_params) ==
    IF Len(ps) = 0 THEN SgrErr(self_params)
    ELSE SgrArm(SgrCodeFromI64(ps[1]), ps, self_params)

sgr(ps, self_params) ==
    IF Len(ps) = 0 THEN SgrResult(TRUE, FALSE, SgrReset, self_params)
    ELSE SgrArm(SgrCodeFromI64(ps[1]), ps, self_params)

\* The controls of the cursor arms that take no or one u32 parameter.
OneParamCursor ==
    (Ascii.Z :> "BackwardTabulation") @@ (Ascii.G :> "CharacterAbsolute")
    @@ (Ascii.I :> "ForwardTabulation") @@ (Ascii.E :> "NextLine")
    @@ (Ascii.F :> "PrecedingLine") @@ (Ascii.D :> "Left")
    @@ (Ascii.B :> "Down") @@ (Ascii.C :> "Right")
    @@ (Ascii.Y :> "LineTabulation")

\* The controls of the cursor arms that take exactly two u32 parameters.
TwoParamCursor ==
    (Ascii.R :> "ActivePositionReport") @@ (Ascii.H :> "Position")

CsiResult(ok, panic, csi, self_params) ==
    [ok |-> ok, panic |-> panic, csi |-> csi, self |-> self_params]

CsiErr(self_params) == CsiResult(FALSE, FALSE, NoCsi, self_params)

\* self.sgr(params).map(|sgr| CSI::Sgr(sgr))
MapSgr(r) ==
    CsiResult(r.ok, r.panic, IF r.ok THEN CsiSgr(r.sgr) ELSE NoCsi, r.self)

\* NoParamArm with 0 as the count of an empty parameter list
NoParamArm_zero(tag, self_params) ==
    CsiResult(TRUE, FALSE, CsiCursor(CursorN(tag, I(0))), self_params)

\* Ok(CSI::Cursor(Cursor::<tag>(1))): the arms for an empty parameter list
NoParamArm(tag, self_params) ==
    CsiResult(TRUE, FALSE, CsiCursor(CursorN(tag, I(1))), self_params)

\* Ok(CSI::Cursor(Cursor::<tag>(to_u32(n)?))), n being what to_u32 returns
OneParamArm(tag, n, self_params) ==
    IF ~n.ok THEN CsiErr(self_params)
    ELSE CsiResult(TRUE, FALSE, CsiCursor(CursorN(tag, n.v)), self_params)

\* TwoParamArm with the first parameter as col and the second as line
TwoParamArm_col_first(tag, line, col, self_params) ==
    IF ~line.ok \/ ~col.ok THEN CsiErr(self_params)
    ELSE CsiResult(TRUE, FALSE, CsiCursor(CursorAt(tag, col.v, line.v)),
                   self_params)

\* Ok(CSI::Cursor(Cursor::<tag> { line: to_u32(line)?, col: to_u32(col)? }))
TwoParamArm(tag, line, col, self_params) ==
    IF ~line.ok \/ ~col.ok THEN CsiErr(self_params)
    ELSE CsiResult(TRUE, FALSE, CsiCursor(CursorAt(tag, line.v, col.v)),
                   self_params)

\* Ok(CSI::Cursor(Cursor::TabulationControl(from_i64(n).ok_or(())?)))
TabulationArm(mode, self_params) ==
    IF mode = "None" THEN CsiErr(self_params)
    ELSE CsiResult(TRUE, FALSE, CsiCursor(CursorTab(mode)), self_params)

parse_next(ctl, is, ps, self_params) ==
    IF ctl = Ascii.m /\ is = <<>> THEN MapSgr(sgr(ps, self_params))
    ELSE IF ctl \in DOMAIN OneParamCursor /\ is = <<>> /\ Len(ps) = 0 THEN
        NoParamArm(OneParamCursor[ctl], self_params)
    ELSE IF ctl \in DOMAIN OneParamCursor /\ is = <<>> /\ Len(ps) = 1 THEN
        OneParamArm(OneParamCursor[ctl], to_u32(ps[1]), self_params)
    ELSE IF ctl \in DOMAIN TwoParamCursor /\ is = <<>> /\ Len(ps) = 2 THEN
        TwoParamArm(TwoParamCursor[ctl], to_u32(ps[1]), to_u32(ps[2]),
                    self_params)
    ELSE IF ctl = Ascii.W /\ is = <<>> /\ Len(ps) = 0 THEN
        CsiResult(TRUE, FALSE,
                  CsiCursor(CursorTab("SetCharacterTabStopAtActivePosition")),
                  self_params)
    ELSE IF ctl = Ascii.W /\ is = <<>> /\ Len(ps) = 1 THEN
        TabulationArm(TabulationFromI64(ps[1]), self_params)
    ELSE CsiErr(self_params)

\* Iterator::next on a parser whose fields are ctl, is, flag and p (params):
\* the item yielded (some = FALSE for None) and params afterwards.
NextResult(some, item, panic, self_params) ==
    [some |-> some, item |-> item, panic |-> panic, self |-> self_params]

\* NextArm wrapping the offending parameter alone and scanning on
NextArm_resync(r, ps, is, flag, ctl) ==
    IF r.panic THEN NextResult(FALSE, NoCsi, TRUE, r.self)
    ELSE IF r.ok THEN NextResult(TRUE, r.csi, FALSE, r.self)
    ELSE IF Len(ps) <= 1
    THEN NextResult(TRUE, CsiUnspecified(ps, is, flag, ctl), FALSE, r.self)
    ELSE NextResult(TRUE, CsiUnspecified(<<ps[1]>>, is, flag, ctl), FALSE,
                    Some(Tail(ps)))

\* The match of next() on what parse_next returned (r) for the slice ps
NextArm(r, ps, is, flag, ctl) ==
    IF r.panic THEN NextResult(FALSE, NoCsi, TRUE, r.self)
    ELSE IF r.ok THEN NextResult(TRUE, r.csi, FALSE, r.self)
    ELSE NextResult(TRUE, CsiUnspecified(ps, is, flag, ctl), FALSE, r.self)

\* next reading params without taking it out of the parser
next_no_take(ctl, is, flag, p) ==
    IF ~p.some THEN NextResult(FALSE, NoCsi, FALSE, None)
    ELSE NextArm(parse_next(ctl, is, p.slice, p), p.slice, is, flag, ctl)

\* self.params.take() leaves None in the parser before parse_next runs.
next(ctl, is, flag, p) ==
    IF ~p.some THEN NextResult(FALSE, NoCsi, FALSE, None)
    ELSE NextArm(parse_next(ctl, is, p.slice, None), p.slice, is, flag, ctl)

\* CSI::parse(...).collect(): the iterator run to its end.
RECURSIVE CollectFrom(_, _, _, _, _)
CollectMore(r, ctl, is, flag, acc) ==
    IF ~r.some THEN acc
    ELSE CollectFrom(ctl, is, flag, r.self, Append(acc, r.item))

CollectFrom(ctl, is, flag, p, acc) ==
    CollectMore(next(ctl, is, flag, p), ctl, is, flag, acc)

Collect(ps, is, flag, ctl) == CollectFrom(ctl, is, flag, Some(ps), <<>>)

----------------------------------------------------------------------------
(* EncodeEscape *)

\* code! writing the position of the variant in the enum, which the gap
\* left for Fraktur (20) sets off from its code
SgrCodeText_ordinal(t) ==
    FmtNat(IF SgrCode[t] > 19 THEN SgrCode[t] - 1 ELSE SgrCode[t])
    \o <<Ascii.m>>

\* code!(t): write!(w, "{}m", SgrCode::t as i64)
SgrCodeText(t) == FmtNat(SgrCode[t]) \o <<Ascii.m>>

\* The arms of Sgr::encode_escape that write one fixed code.
FixedSgrCode ==
    (SgrReset :> "Reset")
    @@ (Sgr0("Intensity", "Bold") :> "IntensityBold")
    @@ (Sgr0("Intensity", "Half") :> "IntensityDim")
    @@ (Sgr0("Intensity", "Normal") :> "NormalIntensity")
    @@ (Sgr0("Underline", "Single") :> "UnderlineOn")
    @@ (Sgr0("Underline", "Double") :> "UnderlineDouble")
    @@ (Sgr0("Underline", "None") :> "UnderlineOff")
    @@ (Sgr0("Blink", "Slow") :> "BlinkOn")
    @@ (Sgr0("Blink", "Rapid") :> "RapidBlinkOn")
    @@ (Sgr0("Blink", "None") :> "BlinkOff")
    @@ (Sgr0("Italic", "true") :> "ItalicOn")
    @@ (Sgr0("Italic", "false") :> "ItalicOff")
    @@ (Sgr0("Inverse", "true") :> "InverseOn")
    @@ (Sgr0("Inverse", "false") :> "InverseOff")
    @@ (Sgr0("Invisible", "true") :> "InvisibleOn")
    @@ (Sgr0("Invisible", "false") :> "InvisibleOff")
    @@ (Sgr0("StrikeThrough", "true") :> "StrikeThroughOn")
    @@ (Sgr0("StrikeThrough", "false") :> "StrikeThroughOff")
    @@ (Sgr0("Font", "Default") :> "DefaultFont")
    @@ (SgrFontAlt(1) :> "AltFont1") @@ (SgrFontAlt(2) :> "AltFont2")
    @@ (SgrFontAlt(3) :> "AltFont3") @@ (SgrFontAlt(4) :> "AltFont4")
    @@ (SgrFontAlt(5) :> "AltFont5") @@ (SgrFontAlt(6) :> "AltFont6")
    @@ (SgrFontAlt(7) :> "AltFont7") @@ (SgrFontAlt(8) :> "AltFont8")
    @@ (SgrFontAlt(9) :> "AltFont9")
    @@ (Sgr0("Foreground", "Default") :> "ForegroundDefault")
    @@ (Sgr0("Background", "Default") :> "BackgroundDefault")

\* The (AnsiColor, SgrCode) pairs given to ansi_color! for the foreground
ForegroundAnsiCode ==
    [Black |-> "ForegroundBlack", Maroon |-> "ForegroundRed",
     Green |-> "ForegroundGreen", Olive |-> "ForegroundYellow",
     Navy |-> "ForegroundBlue", Purple |-> "ForegroundMagenta",
     Teal |-> "ForegroundCyan", Silver |-> "ForegroundWhite",
     Grey |-> "ForegroundBrightBlack", Red |-> "ForegroundBrightRed",
     Lime |-> "ForegroundBrightGreen", Yellow |-> "ForegroundBrightYellow",
     Blue |-> "ForegroundBrightBlue", Fuschia |-> "ForegroundBrightMagenta",
     Aqua |-> "ForegroundBrightCyan", White |-> "ForegroundBrightWhite"]

\* The (AnsiColor, SgrCode) pairs given to ansi_color! for the background
BackgroundAnsiCode ==
    [Black |-> "BackgroundBlack", Maroon |-> "BackgroundRed",
     Green |-> "BackgroundGreen", Olive |-> "BackgroundYellow",
     Navy |-> "BackgroundBlue", Purple |-> "BackgroundMagenta",
     Teal |-> "BackgroundCyan", Silver |-> "BackgroundWhite",
     Grey |-> "BackgroundBrightBlack", Red |-> "BackgroundBrightRed",
     Lime |-> "BackgroundBrightGreen", Yellow |-> "BackgroundBrightYellow",
     Blue |-> "BackgroundBrightBlue", Fuschia |-> "BackgroundBrightMagenta",
     Aqua |-> "BackgroundBrightCyan", White |-> "BackgroundBrightWhite"]

\* ansi_color! writing the extended form for every index
AnsiColorText_extended_only(idx, eightbit, pairs) ==
    FmtNat(SgrCode[eightbit]) \o <<Ascii.Semi>> \o FmtNat(5)
    \o <<Ascii.Semi>> \o FmtNat(idx) \o <<Ascii.m>>

\* ansi_color!(idx, eightbit, pairs)
AnsiColorText(idx, eightbit, pairs) ==
    LET ansi == AnsiFromU8(idx)
    IN  IF ansi # "None" THEN SgrCodeText(pairs[ansi])
        ELSE FmtNat(SgrCode[eightbit]) \o <<Ascii.Semi>> \o FmtNat(5)
             \o <<Ascii.Semi>> \o FmtNat(idx) \o <<Ascii.m>>

\* write!(w, "{};2;{};{};{}m", selector, red, green, blue)
TrueColorText(selector, s) ==
    FmtNat(SgrCode[selector]) \o <<Ascii.Semi>> \o FmtNat(2)
    \o <<Ascii.Semi>> \o FmtNat(s.red) \o <<Ascii.Semi>> \o FmtNat(s.green)
    \o <<Ascii.Semi>> \o FmtNat(s.blue) \o <<Ascii.m>>

\* impl EncodeEscape for Sgr
EncodeSgr(s) ==
    IF s \in DOMAIN FixedSgrCode THEN SgrCodeText(FixedSgrCode[s])
    ELSE IF s.tag = "Font" THEN <<>>
    ELSE IF s.tag = "Foreground" /\ s.arg = "PaletteIndex"
    THEN AnsiColorText(s.n, "ForegroundColor", ForegroundAnsiCode)
    ELSE IF s.tag = "Foreground" /\ s.arg = "TrueColor"
    THEN TrueColorText("ForegroundColor", s)
    ELSE IF s.tag = "Background" /\ s.arg = "PaletteIndex"
    THEN AnsiColorText(s.n, "BackgroundColor", BackgroundAnsiCode)
    ELSE IF s.tag = "Background" /\ s.arg = "TrueColor"
    THEN TrueColorText("BackgroundColor", s)
    ELSE <<>>

\* write_csi! leaving out 0 as well as 1
write_csi_omit_zero(ctl, p1) ==
    IF p1 = I(1) \/ p1 = I(0) THEN <<ctl>> ELSE FmtInt(p1) \o <<ctl>>

\* write_csi!(w, control, p1)
write_csi(ctl, p1) ==
    IF p1 = I(1) THEN <<ctl>> ELSE FmtInt(p1) \o <<ctl>>

\* The control character each one-field Cursor variant is written with.
CursorControl ==
    [BackwardTabulation |-> Ascii.Z, CharacterAbsolute |-> Ascii.G,
     ForwardTabulation |-> Ascii.I, NextLine |-> Ascii.E,
     PrecedingLine |-> Ascii.F, Left |-> Ascii.D, Down |-> Ascii.B,
     Right |-> Ascii.C, Up |-> Ascii.A, LineTabulation |-> Ascii.Y]

\* impl EncodeEscape for Cursor
EncodeCursor(c) ==
    IF c.tag \in DOMAIN CursorControl THEN write_csi(CursorControl[c.tag], c.n)
    ELSE IF c.tag = "ActivePositionReport"
    THEN FmtInt(c.line) \o <<Ascii.Semi>> \o FmtInt(c.col) \o <<Ascii.R>>
    ELSE IF c.tag = "Position"
    THEN FmtInt(c.line) \o <<Ascii.Semi>> \o FmtInt(c.col) \o <<Ascii.H>>
    ELSE IF c.tag = "TabulationControl"
    THEN write_csi(Ascii.W, I(CursorTabulationControl[c.mode]))
    ELSE <<>>

\* The parameters of an Unspecified: the first bare, the others after ';'.
RECURSIVE ParamsText(_, _)
ParamsText(ps, idx) ==
    IF idx > Len(ps) THEN <<>>
    ELSE (IF idx > 1 THEN <<Ascii.Semi>> ELSE <<>>) \o FmtInt(ps[idx])
         \o ParamsText(ps, idx + 1)

\* for i in intermediates { write!(w, "{}", i) } with i: &u8
RECURSIVE IntermediatesText(_)
IntermediatesText(is) ==
    IF is = <<>> THEN <<>>
    ELSE FmtNat(Head(is)) \o IntermediatesText(Tail(is))

\* impl EncodeEscape for CSI
EncodeCSI(a) ==
    <<Ascii.ESC, Ascii.LBracket>>
    \o (IF a.kind = "Sgr" THEN EncodeSgr(a.sgr)
        ELSE IF a.kind = "Cursor" THEN EncodeCursor(a.cursor)
        ELSE ParamsText(a.params, 1) \o IntermediatesText(a.intermediates)
             \o <<a.control>>)

\* The encoding of a Vec<CSI>: its items' encodings, in order.
RECURSIVE EncodeAll(_)
EncodeAll(seq) ==
    IF seq = <<>> THEN <<>> ELSE EncodeCSI(Head(seq)) \o EncodeAll(Tail(seq))

----------------------------------------------------------------------------
(* The upstream tokenizer, by the wire format: ESC '[', parameters         *)
(* (decimal integers separated by ';'), intermediates, final character.    *)

DigitBytes == 48..57
ParamBytes == DigitBytes \cup {Ascii.Semi}
IntermediateBytes == 32..47
FinalBytes == 64..126

\* The first index from j on whose byte is not in S (Len + 1 when none).
RECURSIVE ScanWhile(_, _, _)
ScanWhile(bs, j, S) ==
    IF j <= Len(bs) /\ bs[j] \in S THEN ScanWhile(bs, j + 1, S) ELSE j

\* The first index from j on whose byte is in S (Len + 1 when none).
RECURSIVE ScanUntil(_, _, _)
ScanUntil(bs, j, S) ==
    IF j <= Len(bs) /\ bs[j] \notin S THEN ScanUntil(bs, j + 1, S) ELSE j

\* Decimal digits without leading zeros; an absent parameter is 0.
RECURSIVE StripZeros(_)
StripZeros(ds) ==
    IF ds = <<>> THEN <<0>>
    ELSE IF Head(ds) = 0 /\ Len(ds) > 1 THEN StripZeros(Tail(ds))
    ELSE ds

ParamOfText(t) ==
    [neg |-> FALSE, mag |-> StripZeros([i \in 1..Len(t) |-> t[i] - Ascii.Zero])]

\* The parameters of a parameter text, split at each ';'.
RECURSIVE SplitParams(_)
SplitParams(t) ==
    LET k == ScanUntil(t, 1, {Ascii.Semi})
    IN  IF k > Len(t) THEN <<ParamOfText(t)>>
        ELSE <<ParamOfText(SubSeq(t, 1, k - 1))>>
             \o SplitParams(SubSeq(t, k + 1, Len(t)))

UnitOf(ok, ps, is, flag, ctl) ==
    [ok |-> ok, params |-> ps, intermediates |-> is,
     ignored_extra_intermediates |-> flag, control |-> ctl]

\* The CSI units of a byte stream, in order.  A unit whose bytes do not
\* follow the format is ignored up to its final character (ok = FALSE);
\* intermediates beyond two are dropped and flagged.
RECURSIVE Tokenize(_, _)
Tokenize(bs, i) ==
    IF i > Len(bs) THEN <<>>
    ELSE IF ~(bs[i] = Ascii.ESC /\ i < Len(bs) /\ bs[i + 1] = Ascii.LBracket)
    THEN Tokenize(bs, i + 1)
    ELSE
        LET p == i + 2
            q == ScanWhile(bs, p, ParamBytes)
            f == ScanWhile(bs, q, IntermediateBytes)
            text == SubSeq(bs, p, q - 1)
            is == SubSeq(bs, q, f - 1)
            e == ScanUntil(bs, f, FinalBytes \cup {Ascii.ESC})
        IN  IF f <= Len(bs) /\ bs[f] \in FinalBytes
            THEN <<UnitOf(TRUE,
                          IF text = <<>> THEN <<>> ELSE SplitParams(text),
                          IF Len(is) > 2 THEN SubSeq(is, 1, 2) ELSE is,
                          Len(is) > 2, bs[f])>>
                 \o Tokenize(bs, f + 1)
            ELSE IF e <= Len(bs) /\ bs[e] \in FinalBytes
            THEN <<UnitOf(FALSE, <<>>, <<>>, FALSE, bs[e])>>
                 \o Tokenize(bs, e + 1)
            ELSE <<UnitOf(FALSE, <<>>, <<>>, FALSE, 0)>> \o Tokenize(bs, e)

\* The actions a byte stream decodes to: each unit classified in turn.
RECURSIVE ClassifyUnits(_)
ClassifyUnits(us) ==
    IF us = <<>> THEN <<>>
    ELSE (IF Head(us).ok
          THEN Collect(Head(us).params, Head(us).intermediates,
                       Head(us).ignored_extra_intermediates, Head(us).control)
          ELSE <<>>)
         \o ClassifyUnits(Tail(us))

Decode(bs) == ClassifyUnits(Tokenize(bs, 1))

----------------------------------------------------------------------------
(* RgbColor (src/termwiz/src/color.rs).  The u32 `bits` is kept as its top *)
(* bit (msb) and its low 31 bits; an f32 is kept as mantissa and exponent, *)
(* m * 2^e with 2^23 <= m < 2^24, or m = 0; a string is the sequence of    *)
(* its characters' code points.                                            *)

Pow2(n) == 2 ^ n

U32Bits(msb, low) == [msb |-> msb, low |-> low]

\* bits >> k on a u32, k in 1..31
Shr(bits, k) ==
    U32Bits(FALSE,
            (IF bits.msb THEN Pow2(31 - k) ELSE 0) + (bits.low \div Pow2(k)))

\* bits as u8
LowU8(bits) == bits.low % 256

F32(m, e) == [m |-> m, e |-> e]

\* m * 2^e for an integer m below 2^24 (exact); `v as f32` of a u16 v is
\* F32Normal(v, 0)
RECURSIVE F32Normal(_, _)
F32Normal(m, e) ==
    IF m = 0 THEN F32(0, 0)
    ELSE IF m < Pow2(23) THEN F32Normal(2 * m, e - 1)
    ELSE F32(m, e)

\* The mantissa q rounded up or not; a carry out of 24 bits renormalises.
F32Round(q, e, up) ==
    IF ~up THEN F32(q, e)
    ELSE IF q + 1 = Pow2(24) THEN F32(Pow2(23), e + 1)
    ELSE F32(q + 1, e)

\* Round to nearest, ties to even: rest is what was cut off, half its tie
RoundsUp(q, rest, half) == rest > half \/ (rest = half /\ q % 2 = 1)

\* n more quotient bits of r / d
RECURSIVE LongDiv(_, _, _, _)
LongDiv(r, d, n, q) ==
    IF n = 0 THEN [q |-> q, r |-> r]
    ELSE IF 2 * r >= d THEN LongDiv(2 * r - d, d, n - 1, 2 * q + 1)
    ELSE LongDiv(2 * r, d, n - 1, 2 * q)

F32DivRound(res, d, e) == F32Round(res.q, e, RoundsUp(res.q, 2 * res.r, d))

\* a / b on f32, b not zero
F32Div(a, b) ==
    IF a.m = 0 THEN F32(0, 0)
    ELSE IF a.m >= b.m
    THEN F32DivRound(LongDiv(a.m - b.m, b.m, 23, 1), b.m, a.e - b.e - 23)
    ELSE F32DivRound(LongDiv(a.m, b.m, 24, 0), b.m, a.e - b.e - 24)

\* The 48-bit product hi * 2^24 + lo rounded to 24 bits
F32MulRound(hi, lo, e) ==
    IF hi >= Pow2(23)
    THEN F32Round(hi, e + 24, RoundsUp(hi, lo, Pow2(23)))
    ELSE F32Round(2 * hi + (lo \div Pow2(23)), e + 23,
                  RoundsUp(lo \div Pow2(23), lo % Pow2(23), Pow2(22)))

\* The product of two mantissas from their 12-bit halves
F32MulParts(ah, al, bh, bl, e) ==
    F32MulRound(ah * bh + ((ah * bl + al * bh) \div 4096)
                    + ((((ah * bl + al * bh) % 4096) * 4096 + al * bl)
                          \div Pow2(24)),
                (((ah * bl + al * bh) % 4096) * 4096 + al * bl) % Pow2(24),
                e)

\* a * b on f32
F32Mul(a, b) ==
    IF a.m = 0 \/ b.m = 0 THEN F32(0, 0)
    ELSE F32MulParts(a.m \div 4096, a.m % 4096, b.m \div 4096, b.m % 4096,
                     a.e + b.e)

\* x as u8 for a non-negative f32: the integer part, at most 255
F32AsU8(x) ==
    IF x.m = 0 THEN 0
    ELSE IF x.e >= 0 THEN 255
    ELSE IF 0 - x.e > 24 THEN 0
    ELSE IF x.m \div Pow2(0 - x.e) > 255 THEN 255
    ELSE x.m \div Pow2(0 - x.e)

TEN_BITS == 1023
MAX_TEN == F32Normal(1023, 0)

\* `bits as u16 & TEN_BITS` keeps the low 10 bits
ten_to_eight(bits) ==
    F32AsU8(F32Mul(F32Div(F32Normal((bits.low % 65536) % (TEN_BITS + 1), 0),
                          MAX_TEN),
                   F32Normal(255, 0)))

\* red, green and blue are u8
new_8bpc(red, green, blue) == U32Bits(FALSE, red * 65536 + green * 256 + blue)

\* red, green and blue are u16; the three masked fields do not overlap
new_10bpc(red, green, blue) ==
    U32Bits(TRUE, (red % (TEN_BITS + 1)) * Pow2(20)
                  + (green % (TEN_BITS + 1)) * Pow2(10)
                  + (blue % (TEN_BITS + 1)))

to_tuple_rgb8(self) ==
    IF ~self.msb
    THEN <<LowU8(Shr(self, 16)), LowU8(Shr(self, 8)), LowU8(self)>>
    ELSE <<ten_to_eight(Shr(self, 20)), ten_to_eight(Shr(self, 10)),
           ten_to_eight(self)>>

\* Characters
Ch == [Hash |-> 35, Space |-> 32, Slash |-> 47, Zero |-> 48, Colon |-> 58,
       a |-> 97, b |-> 98, d |-> 100, e |-> 101, g |-> 103, h |-> 104,
       k |-> 107, l |-> 108, n |-> 110, r |-> 114, s |-> 115,
       F |-> 70, G |-> 71, EAcute |-> 233]

\* {:02x} of a u8
HexLower(n) == IF n < 10 THEN Ch.Zero + n ELSE Ch.a + (n - 10)
Fmt02x(v) == <<HexLower(v \div 16), HexLower(v % 16)>>

\* format!("#{:02x}{:02x}{:02x}", red, green, blue) of to_tuple_rgb8
RgbString(t) == <<Ch.Hash>> \o Fmt02x(t[1]) \o Fmt02x(t[2]) \o Fmt02x(t[3])
to_rgb_string(self) == RgbString(to_tuple_rgb8(self))

\* char::to_digit(16)
to_digit(c) ==
    IF c \in 48..57 THEN [some |-> TRUE, v |-> c - 48]
    ELSE IF c \in 65..70 THEN [some |-> TRUE, v |-> c - 55]
    ELSE IF c \in 97..102 THEN [some |-> TRUE, v |-> c - 87]
    ELSE [some |-> FALSE, v |-> 0]

\* The UTF-8 bytes of a string of code points below 2048
RECURSIVE as_bytes(_)
as_bytes(s) ==
    IF s = <<>> THEN <<>>
    ELSE (IF Head(s) < 128 THEN <<Head(s)>>
          ELSE <<192 + (Head(s) \div 64), 128 + (Head(s) % 64)>>)
         \o as_bytes(Tail(s))

starts_with(bytes, prefix) ==
    Len(bytes) >= Len(prefix) /\ SubSeq(bytes, 1, Len(prefix)) = prefix

\* Option<RgbColor>; panic marks a call that aborted, hsl the `hsl:` form,
\* whose arithmetic is outside this model.
ColorResult(some, panic, hsl, color) ==
    [some |-> some, panic |-> panic, hsl |-> hsl, color |-> color]
NoColor == ColorResult(FALSE, FALSE, FALSE, U32Bits(FALSE, 0))
SomeColor(c) == ColorResult(TRUE, FALSE, FALSE, c)
ColorPanic == ColorResult(FALSE, TRUE, FALSE, U32Bits(FALSE, 0))
HslColor == ColorResult(FALSE, FALSE, TRUE, U32Bits(FALSE, 0))

\* The loop of digit!(): `left` more hex digits from chars[pos] on; it
\* leaves the component and the position in chars.
\* chars.next().unwrap() aborts when the characters have run out.
RECURSIVE DigitLoop(_, _, _, _)
DigitLoop(chars, pos, left, component) ==
    IF left = 0
    THEN [ok |-> TRUE, panic |-> FALSE, component |-> component, pos |-> pos]
    ELSE IF pos > Len(chars)
    THEN [ok |-> FALSE, panic |-> TRUE, component |-> 0, pos |-> pos]
    ELSE IF ~to_digit(chars[pos]).some
    THEN [ok |-> FALSE, panic |-> FALSE, component |-> 0, pos |-> pos]
    ELSE DigitLoop(chars, pos + 1, left - 1,
                   ((component * 16) % 65536) + to_digit(chars[pos]).v)

\* HashScale replicating the nibble of a single digit
HashScale_replicate(digits, component) ==
    IF digits = 1 THEN (component + ((component * 16) % 65536)) % 256
    ELSE IF digits = 2 THEN component % 256
    ELSE IF digits = 3 THEN (component \div 16) % 256
    ELSE (component \div 256) % 256

\* The match on digits that ends digit!() of the `#` form
HashScale(digits, component) ==
    IF digits = 1 THEN ((component * 16) % 65536) % 256
    ELSE IF digits = 2 THEN component % 256
    ELSE IF digits = 3 THEN (component \div 16) % 256
    ELSE (component \div 256) % 256

\* RgbScale shifting a single digit as the `#` form does
RgbScale_shift(digits, component) ==
    IF digits = 1 THEN ((component * 16) % 65536) % 256
    ELSE IF digits = 2 THEN component % 256
    ELSE IF digits = 3 THEN (component \div 16) % 256
    ELSE (component \div 256) % 256

\* The match on digits that ends digit!() of the `rgb:` form; a component
\* of one digit is below 16, so `component | component << 4` is their sum.
RgbScale(digits, component) ==
    IF digits = 1 THEN (component + ((component * 16) % 65536)) % 256
    ELSE IF digits = 2 THEN component % 256
    ELSE IF digits = 3 THEN (component \div 16) % 256
    ELSE (component \div 256) % 256

\* Some(Self::new_8bpc(digit!(), digit!(), digit!())), left to right
HashBlue(digits, red, green, b) ==
    IF b.panic THEN ColorPanic
    ELSE IF ~b.ok THEN NoColor
    ELSE SomeColor(new_8bpc(red, green, HashScale(digits, b.component)))

HashGreen(chars, digits, red, g) ==
    IF g.panic THEN ColorPanic
    ELSE IF ~g.ok THEN NoColor
    ELSE HashBlue(digits, red, HashScale(digits, g.component),
                  DigitLoop(chars, g.pos, digits, 0))

HashRed(chars, digits, r) ==
    IF r.panic THEN ColorPanic
    ELSE IF ~r.ok THEN NoColor
    ELSE HashGreen(chars, digits, HashScale(digits, r.component),
                   DigitLoop(chars, r.pos, digits, 0))

\* The `#` branch of from_rgb_str; len is s.len(), chars skips the '#'
HashForm(chars, len) ==
    IF 1 + ((len - 1) \div 3) * 3 # len THEN NoColor
    ELSE IF (len - 1) \div 3 = 0 \/ (len - 1) \div 3 > 4 THEN NoColor
    ELSE HashRed(chars, (len - 1) \div 3,
                 DigitLoop(chars, 2, (len - 1) \div 3, 0))

\* slash!(): the next character is '/'
Slash(chars, pos) == pos <= Len(chars) /\ chars[pos] = Ch.Slash

\* let blue = digit!(); Some(Self::new_8bpc(red, green, blue))
RgbBlue(digits, red, green, b) ==
    IF b.panic THEN ColorPanic
    ELSE IF ~b.ok THEN NoColor
    ELSE SomeColor(new_8bpc(red, green, RgbScale(digits, b.component)))

\* let green = digit!(); slash!();
RgbGreen(chars, digits, red, g) ==
    IF g.panic THEN ColorPanic
    ELSE IF ~g.ok THEN NoColor
    ELSE IF ~Slash(chars, g.pos) THEN NoColor
    ELSE RgbBlue(digits, red, RgbScale(digits, g.component),
                 DigitLoop(chars, g.pos + 1, digits, 0))

\* let red = digit!(); slash!();
RgbRed(chars, digits, r) ==
    IF r.panic THEN ColorPanic
    ELSE IF ~r.ok THEN NoColor
    ELSE IF ~Slash(chars, r.pos) THEN NoColor
    ELSE RgbGreen(chars, digits, RgbScale(digits, r.component),
                  DigitLoop(chars, r.pos + 1, digits, 0))

\* The `rgb:` branch of from_rgb_str; chars skips the four of "rgb:"
RgbForm(chars, len) ==
    IF 3 + ((len - 3) \div 3) * 3 # len THEN NoColor
    ELSE IF (len - 3) \div 3 - 1 = 0 \/ (len - 3) \div 3 - 1 > 4 THEN NoColor
    ELSE RgbRed(chars, (len - 3) \div 3 - 1,
                DigitLoop(chars, 5, (len - 3) \div 3 - 1, 0))

RgbPrefix == <<Ch.r, Ch.g, Ch.b, Ch.Colon>>

FromRgbBytes(s, bytes) ==
    IF Len(bytes) > 0 /\ bytes[1] = Ch.Hash THEN HashForm(s, Len(bytes))
    ELSE IF starts_with(bytes, RgbPrefix) /\ Len(bytes) > 6
    THEN RgbForm(s, Len(bytes))
    ELSE IF starts_with(bytes, <<Ch.h, Ch.s, Ch.l, Ch.Colon>>) THEN HslColor
    ELSE NoColor

from_rgb_str(s) == FromRgbBytes(s, as_bytes(s))

\* to_ascii_lowercase
Lower(s) == [i \in 1..Len(s) |-> IF s[i] \in 65..90 THEN s[i] + 32 ELSE s[i]]

\* NAMED_COLORS is built from rgb.txt, which is not among the sources; of
\* its entries the table holds the one that tests::named_rgb reads.
NAMED_COLORS ==
    (<<Ch.d, Ch.a, Ch.r, Ch.k, Ch.g, Ch.r, Ch.e, Ch.e, Ch.n>>
        :> new_8bpc(0, 100, 0))

from_named(name) ==
    IF Lower(name) \in DOMAIN NAMED_COLORS
    THEN SomeColor(NAMED_COLORS[Lower(name)])
    ELSE NoColor

\* RgbColor::from_rgb_str(&s).or_else(|| RgbColor::from_named(&s))
OrElseNamed(r, s) == IF r.some \/ r.panic \/ r.hsl THEN r ELSE from_named(s)
from_named_or_rgb_string(s) == OrElseNamed(from_rgb_str(s), s)

\* No colour has been constructed or parsed.
ColorIdle ==
    /\ rgb_args = [ctor |-> "", red |-> 0, green |-> 0, blue |-> 0]
    /\ rgb = NoColor
    /\ rgb8 = <<>>
    /\ rgb_text = <<>>
    /\ parsed = NoColor

----------------------------------------------------------------------------
(* The inputs of the model *)

\* Sequences over S of length at most n
RECURSIVE SeqsUpTo(_, _)
SeqsUpTo(S, n) ==
    IF n = 0 THEN {<<>>}
    ELSE LET shorter == SeqsUpTo(S, n - 1)
         IN  shorter \cup {Append(s, x) : s \in shorter, x \in S}

\* Parameters of the long SGR inputs: an unknown negative code, two
\* one-parameter codes that are also the colour discriminators, the
\* selector, the largest channel value and the smallest value above it.
SgrValues(selector) == {I(0 - 1), I(2), I(5), I(selector), I(255), I(256)}

\* Parameters of the inputs over every control.
ShortValues ==
    {I(0 - 1), I(0), I(1), I(3), I(7), I(1231231),
     U32Max, [neg |-> FALSE, mag |-> <<4, 2, 9, 4, 9, 6, 7, 2, 9, 6>>]}

\* Parameters of the longer inputs of R, H and W.
PositionValues == {I(0), I(1), I(6)}

Controls ==
    {Ascii.m, Ascii.Z, Ascii.G, Ascii.I, Ascii.E, Ascii.F, Ascii.R, Ascii.D,
     Ascii.B, Ascii.C, Ascii.Y, Ascii.W, Ascii.H, Ascii.A, Ascii.q}

\* The intermediates and the flag the tokenizer hands over: the flag is set
\* when it dropped intermediates beyond the second.
IntermediateInputs ==
    {<<<<>>, FALSE>>, <<<<Ascii.SP>>, FALSE>>,
     <<<<Ascii.SP, Ascii.Dollar>>, FALSE>>,
     <<<<Ascii.SP, Ascii.Dollar>>, TRUE>>}

----------------------------------------------------------------------------
(* The state machine: CSI::parse, the calls of next(), the encoding of the *)
(* collected actions and their decoding again.                             *)

\* CSI::parse: the parser holds Some(params), whatever the arguments.
Init ==
    /\ \/ /\ control = Ascii.m
          /\ intermediates = <<>>
          /\ ignored_extra_intermediates = FALSE
          /\ \E selector \in {SgrCode.ForegroundColor, SgrCode.BackgroundColor} :
                input \in SeqsUpTo(SgrValues(selector), MaxSgrLen)
       \/ /\ control = Ascii.m
          /\ intermediates = <<>>
          /\ ignored_extra_intermediates = FALSE
          /\ \E c \in (0 - 1)..MaxCode : input = <<I(c)>>
       \/ /\ control \in Controls
          /\ \E ii \in IntermediateInputs :
                /\ intermediates = ii[1]
                /\ ignored_extra_intermediates = ii[2]
          /\ input \in SeqsUpTo(ShortValues, MaxShortLen)
       \/ /\ control \in {Ascii.R, Ascii.H, Ascii.W}
          /\ intermediates = <<>>
          /\ ignored_extra_intermediates = FALSE
          /\ \/ input \in SeqsUpTo(PositionValues, MaxPositionLen)
             \/ \E n \in (0 - 1)..MaxTabCode : input = <<I(n)>>
    /\ params = Some(input)
    /\ actions = <<>>
    /\ seen = <<>>
    /\ panicked = FALSE
    /\ after_end = 0
    /\ pc = "parsing"
    /\ encoded = <<>>
    /\ redecoded = <<>>
    /\ ColorIdle

\* The effect of a call of next() that returned r
Yield(r) ==
    /\ params' = r.self
    /\ panicked' = r.panic
    /\ pc' = IF r.panic THEN "aborted" ELSE pc
    /\ actions' = IF r.some THEN Append(actions, r.item) ELSE actions

\* A call of next() that finds parameters to classify.
Step ==
    /\ pc = "parsing"
    /\ params.some
    /\ Yield(next(control, intermediates, ignored_extra_intermediates, params))
    /\ seen' = Append(seen, params.slice)
    /\ UNCHANGED <<color_vars, control, intermediates,
                   ignored_extra_intermediates, input,
                   after_end, encoded, redecoded>>

\* A call of next() on the parser whose params is None.
StepAfterEnd ==
    /\ pc = "parsing"
    /\ ~params.some
    /\ after_end < MaxAfterEnd
    /\ Yield(next(control, intermediates, ignored_extra_intermediates, params))
    /\ after_end' = after_end + 1
    /\ UNCHANGED <<color_vars, control, intermediates,
                   ignored_extra_intermediates, input,
                   seen, encoded, redecoded>>

\* collect() ends at the first None; the collected actions are encoded.
Encode ==
    /\ pc = "parsing"
    /\ ~params.some
    /\ after_end = 1
    /\ encoded' = EncodeAll(actions)
    /\ pc' = "encoded"
    /\ UNCHANGED <<color_vars, control, intermediates,
                   ignored_extra_intermediates, params,
                   input, actions, seen, panicked, after_end, redecoded>>

\* The encoded bytes are tokenized and classified again.
Redecode ==
    /\ pc = "encoded"
    /\ redecoded' = Decode(encoded)
    /\ pc' = "redecoded"
    /\ UNCHANGED <<color_vars, control, intermediates,
                   ignored_extra_intermediates, params,
                   input, actions, seen, panicked, after_end, encoded>>

Next == Step \/ StepAfterEnd \/ Encode \/ Redecode

Spec == Init /\ [][Next]_vars

----------------------------------------------------------------------------
(* Properties *)

\* Step i of the scan: the slice it took and the action it yielded.
Steps == 1..(IF Len(actions) < Len(seen) THEN Len(actions) ELSE Len(seen))

IsSgrUnit == control = Ascii.m /\ intermediates = <<>>

\* The last k parameters of the input
InputSuffix(k) == SubSeq(input, Len(input) - k + 1, Len(input))

\* The Unspecified action that holds slice s of the unit being parsed
UnspecifiedOf(s) ==
    CsiUnspecified(s, intermediates, ignored_extra_intermediates, control)

\* The scan stopped at step i: it is the last step and nothing is pending.
StoppedAt(i) == i = Len(seen) /\ i = Len(actions) /\ ~params.some

\* Step i left exactly the parameters after the first n of its slice: they
\* are pending or were taken by step i + 1, and none left ends the scan.
ConsumedAt(i, n) ==
    LET rest == SubSeq(seen[i], n + 1, Len(seen[i]))
    IN  IF rest = <<>> THEN i = Len(seen) /\ ~params.some
        ELSE IF i = Len(seen) THEN params = Some(rest)
        ELSE seen[i + 1] = rest

\* C1: when the classification of a step fails, the whole slice of that
\* step (a suffix of the input) becomes one Unspecified action carrying the
\* unit's intermediates, flag and control, and the scan stops there; the
\* actions before it stay, and an Unspecified action is always the last.
C1_FailureWrapsRemainder ==
    /\ \A i \in Steps :
          ~parse_next(control, intermediates, seen[i], None).ok =>
              /\ actions[i] = UnspecifiedOf(seen[i])
              /\ seen[i] = InputSuffix(Len(seen[i]))
              /\ StoppedAt(i)
    /\ \A i \in 1..Len(actions) :
          actions[i].kind = "Unspecified" =>
              /\ i = Len(actions)
              /\ ~params.some
              /\ i \in Steps
              /\ actions[i] = UnspecifiedOf(seen[i])

\* A recognised action followed by an Unspecified that took an offending
\* parameter together with the parameter after it.
C1_Witness ==
    /\ Len(actions) = 2
    /\ actions[1].kind = "Sgr"
    /\ actions[2].kind = "Unspecified"
    /\ Len(input) = 3
    /\ actions[2].params = SubSeq(input, 2, 3)
    /\ SgrCodeFromI64(input[3]) \notin {"None", "ForegroundColor", "BackgroundColor"}

\* The SGR codes of the fixed table that stand alone (0-97 and 100-107
\* without the gaps and without the two extended-colour selectors).
SingleCodes ==
    ((0..19) \cup (21..25) \cup (27..37) \cup {39} \cup (40..47) \cup {49}
     \cup (90..97) \cup (100..107))

IsSingleCode(v) == IsSmall(v) /\ Small(v) \in SingleCodes

\* ESC [ <code> m for each parameter of ps, in order
RECURSIVE CodeUnits(_)
CodeUnits(ps) ==
    IF ps = <<>> THEN <<>>
    ELSE <<Ascii.ESC, Ascii.LBracket>> \o FmtInt(Head(ps)) \o <<Ascii.m>>
         \o CodeUnits(Tail(ps))

\* C2: an 'm' unit without intermediates whose parameters are all
\* single-parameter SGR codes yields one Sgr action per parameter, in the
\* parameters' order (each the action its parameter yields alone), and the
\* actions encode as ESC [ <code> m for each parameter in order.
C2_OneSgrPerCode ==
    (/\ IsSgrUnit
     /\ Len(input) >= 1
     /\ \A i \in 1..Len(input) : IsSingleCode(input[i])
     /\ pc \in {"encoded", "redecoded"}) =>
        /\ Len(actions) = Len(input)
        /\ \A i \in 1..Len(input) :
              /\ actions[i].kind = "Sgr"
              /\ <<actions[i]>> = Collect(<<input[i]>>, <<>>, FALSE, Ascii.m)
        /\ encoded = CodeUnits(input)
        /\ input = <<I(1), I(3)>> =>
              actions = <<CsiSgr(Sgr0("Intensity", "Bold")),
                          CsiSgr(Sgr0("Italic", "true"))>>

\* CSI 1;3 m was decoded and encoded.
C2_Witness ==
    /\ IsSgrUnit
    /\ input = <<I(1), I(3)>>
    /\ pc = "encoded"
    /\ encoded = <<27, 91, 49, 109, 27, 91, 51, 109>>

\* v fits an 8-bit field
InU8(v) == Le(I(0), v) /\ Le(v, I(255))

IsSelector(v) == v \in {I(38), I(48)}

\* The slice s is an extended-colour form with a component out of 0..255.
ColourOutOfRange(s) ==
    /\ Len(s) >= 3
    /\ IsSelector(s[1])
    /\ \/ s[2] = I(5) /\ ~InU8(s[3])
       \/ /\ s[2] = I(2)
          /\ Len(s) >= 5
          /\ \E k \in 3..5 : ~InU8(s[k])

\* C3: an extended-colour form whose palette index or channel is negative
\* or above 255 is never turned into a colour: the step yields an
\* Unspecified action holding the whole remaining slice.
C3_RangeViolationIsUnspecified ==
    \A i \in Steps :
        (IsSgrUnit /\ ColourOutOfRange(seen[i])) =>
            actions[i] = UnspecifiedOf(seen[i])

\* C4: an Unspecified action that the parser produced encodes to bytes that
\* decode to no recognised action (nothing but Unspecified).
C4_UnspecifiedIsInert ==
    pc = "redecoded" =>
        \A i \in 1..Len(actions) :
            actions[i].kind = "Unspecified" =>
                \A j \in 1..Len(Decode(EncodeCSI(actions[i]))) :
                    Decode(EncodeCSI(actions[i]))[j].kind = "Unspecified"

\* The decimal texts of ps joined by ';'
RECURSIVE JoinDecimal(_)
JoinDecimal(ps) ==
    IF ps = <<>> THEN <<>>
    ELSE IF Len(ps) = 1 THEN FmtInt(ps[1])
    ELSE FmtInt(ps[1]) \o <<Ascii.Semi>> \o JoinDecimal(Tail(ps))

\* C5: an Unspecified action encodes as ESC [, its parameters in decimal
\* joined by ';', each intermediate byte as it is, and the control
\* character; the flag adds nothing.
C5_UnspecifiedEncoding ==
    \A i \in 1..Len(actions) :
        actions[i].kind = "Unspecified" =>
            EncodeCSI(actions[i]) =
                <<Ascii.ESC, Ascii.LBracket>> \o JoinDecimal(actions[i].params)
                \o actions[i].intermediates \o <<actions[i].control>>

\* The cursor controls that take no or one parameter
CountControls ==
    {Ascii.Z, Ascii.G, Ascii.I, Ascii.E, Ascii.F, Ascii.D, Ascii.B, Ascii.C,
     Ascii.Y}

\* The unit has no intermediates and no parameters, and its scan has ended.
EmptyUnitDone == intermediates = <<>> /\ input = <<>> /\ ~params.some

\* The actions of the unit's control with no intermediates and parameters ps
ActionsOf(ps) == Collect(ps, <<>>, ignored_extra_intermediates, control)

\* C6 as stated: for each of Z, G, I, E, F, D, B, C, Y and W the empty
\* parameter list yields the one action that the list [1] yields.
C6_DefaultIsOne ==
    (EmptyUnitDone /\ control \in CountControls \cup {Ascii.W}) =>
        /\ Len(actions) = 1
        /\ actions = ActionsOf(<<I(1)>>)

\* C6 amended: for each of Z, G, I, E, F, D, B, C and Y the empty parameter
\* list yields the one action that the list [1] yields (count 1); for W it
\* yields the one action that the list [0] yields, which is not that of [1].
C6_DefaultIsOneButW ==
    /\ (EmptyUnitDone /\ control \in CountControls) =>
          /\ Len(actions) = 1
          /\ actions = ActionsOf(<<I(1)>>)
          /\ actions[1].kind = "Cursor"
          /\ actions[1].cursor.n = I(1)
    /\ (EmptyUnitDone /\ control = Ascii.W) =>
          /\ Len(actions) = 1
          /\ actions = ActionsOf(<<I(0)>>)
          /\ actions # ActionsOf(<<I(1)>>)
          /\ actions[1].kind = "Cursor"
    /\ (EmptyUnitDone /\ control = Ascii.C) =>
          actions = <<CsiCursor(CursorN("Right", I(1)))>>

\* CSI C without parameters was classified.
C6_Witness ==
    /\ EmptyUnitDone
    /\ control = Ascii.C
    /\ actions = <<CsiCursor(CursorN("Right", I(1)))>>

ColourTag(v) == IF v = I(38) THEN "Foreground" ELSE "Background"

\* C7: in an 'm' unit, a slice s,5,idx (s 38 or 48, idx in 0..255) yields
\* the palette colour idx and consumes 3 parameters; a slice of 5 or more
\* s,2,r,g,b (each in 0..255) yields the true colour and consumes 5; the
\* scan goes on with what follows; a selector with too few parameters or
\* another discriminator yields Unspecified holding the slice from the
\* selector on, and the scan stops.
C7_ExtendedColour ==
    \A i \in Steps :
        LET s == seen[i] IN
        (IsSgrUnit /\ Len(s) >= 1 /\ IsSelector(s[1])) =>
            /\ (Len(s) >= 3 /\ s[2] = I(5) /\ InU8(s[3])) =>
                  /\ actions[i] =
                        CsiSgr(SgrPalette(ColourTag(s[1]), Small(s[3])))
                  /\ ConsumedAt(i, 3)
            /\ (/\ Len(s) >= 5
                /\ s[2] = I(2)
                /\ \A k \in 3..5 : InU8(s[k])) =>
                  /\ actions[i] =
                        CsiSgr(SgrTrueColor(ColourTag(s[1]), Small(s[3]),
                                            Small(s[4]), Small(s[5])))
                  /\ ConsumedAt(i, 5)
            /\ (\/ Len(s) < 3
                \/ s[2] \notin {I(2), I(5)}
                \/ s[2] = I(2) /\ Len(s) < 5) =>
                  /\ actions[i] = UnspecifiedOf(s)
                  /\ StoppedAt(i)

\* CSI 38;5;255;255;255 m gave the palette colour and then an Unspecified
\* with the two parameters that follow.
C7_Witness ==
    /\ IsSgrUnit
    /\ input = <<I(38), I(5), I(255), I(255), I(255)>>
    /\ actions = <<CsiSgr(SgrPalette("Foreground", 255)),
                   UnspecifiedOf(<<I(255), I(255)>>)>>
    /\ ~params.some

\* C8: for every SGR code of the fixed table, the unit CSI <code> m decodes
\* to actions whose encoding decodes to the same actions (one Sgr value for
\* every code but the two selectors, which need more parameters).
C8_SgrRoundTrip ==
    (/\ IsSgrUnit
     /\ Len(input) = 1
     /\ IsSmall(input[1])
     /\ Small(input[1]) \in SingleCodes \cup {38, 48}
     /\ pc = "redecoded") =>
        /\ Len(actions) = 1
        /\ redecoded = actions
        /\ Small(input[1]) \in SingleCodes => actions[1].kind = "Sgr"

\* CSI 21 m was decoded, encoded and decoded again.
C8_Witness ==
    /\ IsSgrUnit
    /\ input = <<I(21)>>
    /\ pc = "redecoded"
    /\ redecoded = <<CsiSgr(Sgr0("Underline", "Double"))>>

\* C9: an 'm' unit without intermediates with no parameter, and one with
\* the parameter 0, yield exactly one action, Sgr::Reset, encoded as
\* ESC [ 0 m; there is never a second action.
C9_EmptyIsReset ==
    (IsSgrUnit /\ input \in {<<>>, <<I(0)>>}) =>
        /\ Len(actions) <= 1
        /\ ~params.some => actions = <<CsiSgr(SgrReset)>>
        /\ pc \in {"encoded", "redecoded"} => encoded = <<27, 91, 48, 109>>

\* CSI m was decoded to the single action Reset, which was then
\* encoded.
C9_Witness ==
    /\ IsSgrUnit
    /\ input = <<>>
    /\ pc = "encoded"
    /\ actions = <<CsiSgr(SgrReset)>>

\* C10: the scan never aborts; it yields at least one action and at most
\* max(1, number of parameters); every step that leaves parameters pending
\* leaves fewer than it took; once the iterator has answered None it stays
\* exhausted and yields nothing more.
C10_FiniteNonRestartable ==
    /\ ~panicked
    /\ pc # "aborted"
    /\ Len(actions) <= (IF Len(input) < 1 THEN 1 ELSE Len(input))
    /\ ~params.some => Len(actions) >= 1
    /\ \A i \in 1..Len(seen) :
          /\ i < Len(seen) => Len(seen[i + 1]) < Len(seen[i])
          /\ (i = Len(seen) /\ params.some) =>
                Len(params.slice) < Len(seen[i])
    /\ after_end >= 1 => (~params.some /\ Len(actions) = Len(seen))

\* A scan of five parameters that yielded five actions, after which two
\* more calls of next() were answered None.
C10_Witness ==
    /\ Len(input) = 5
    /\ Len(actions) = 5
    /\ after_end = 2
    /\ ~params.some

\* A value outside 0..4294967295
OutOfU32(v) ==
    \/ v.neg
    \/ Len(v.mag) > 10
    \/ Len(v.mag) = 10 /\ MagLt(<<4, 2, 9, 4, 9, 6, 7, 2, 9, 5>>, v.mag)

\* The first call of next() on a unit without intermediates was made.
FirstStepDone == intermediates = <<>> /\ Len(seen) >= 1 /\ Len(actions) >= 1

\* C11: for Z, G, I, E, F, D, B, C, Y with one parameter, and for R and H
\* with two, a parameter that is negative or above 4294967295 makes the
\* whole list one Unspecified action, the only action of the unit; when
\* every parameter is in 0..4294967295 the action is the Cursor action of
\* the control, holding the parameters unchanged.
C11_U32RangeOrUnspecified ==
    /\ (FirstStepDone /\ control \in CountControls /\ Len(input) = 1) =>
          /\ Len(actions) = 1
          /\ ~params.some
          /\ actions[1] =
                IF OutOfU32(input[1]) THEN UnspecifiedOf(input)
                ELSE CsiCursor(CursorN(OneParamCursor[control], input[1]))
    /\ (FirstStepDone /\ control \in {Ascii.R, Ascii.H} /\ Len(input) = 2) =>
          /\ Len(actions) = 1
          /\ ~params.some
          /\ actions[1] =
                IF OutOfU32(input[1]) \/ OutOfU32(input[2])
                THEN UnspecifiedOf(input)
                ELSE CsiCursor(CursorAt(TwoParamCursor[control], input[1],
                                        input[2]))

\* CSI H with the largest u32 and a negative value was classified, and
\* the unit's only action is the Unspecified holding both.
C11_Witness ==
    /\ FirstStepDone
    /\ control = Ascii.H
    /\ input = <<U32Max, I(0 - 1)>>
    /\ actions = <<UnspecifiedOf(input)>>

\* s is a non-empty strict suffix of t
StrictSuffix(s, t) ==
    /\ s # <<>>
    /\ Len(s) < Len(t)
    /\ s = SubSeq(t, Len(t) - Len(s) + 1, Len(t))

\* C20: after every call of next() the pending remainder is absent or a
\* non-empty strict suffix of the slice that call took; it is never an empty
\* slice, so the step that consumes the last parameter ends the scan and no
\* default action follows: 'm' with [1] yields exactly [Intensity(Bold)].
C20_RemainderNeverEmpty ==
    /\ \A i \in 1..Len(seen) :
          /\ i < Len(seen) => StrictSuffix(seen[i + 1], seen[i])
          /\ (i = Len(seen) /\ params.some) =>
                StrictSuffix(params.slice, seen[i])
    /\ (IsSgrUnit /\ input = <<I(1)>> /\ Len(seen) >= 1) =>
          /\ ~params.some
          /\ actions = <<CsiSgr(Sgr0("Intensity", "Bold"))>>
    /\ (IsSgrUnit /\ ~params.some /\ Len(input) >= 1
            /\ actions[Len(actions)].kind = "Sgr"
            /\ SgrCodeFromI64(input[Len(input)]) # "Reset") =>
          actions[Len(actions)].sgr # SgrReset

\* 'm' with [1] was scanned to its end, further calls of next() included.
C20_Witness ==
    /\ IsSgrUnit
    /\ input = <<I(1)>>
    /\ after_end = 2
    /\ actions = <<CsiSgr(Sgr0("Intensity", "Bold"))>>

----------------------------------------------------------------------------
(* The codec on typed values: a CSI action is built directly, encoded     *)
(* (test::encode), and the bytes are tokenized and classified again.       *)

U8Values == 0..255

\* u32 fields of the Cursor actions: the least, the value write_csi! leaves
\* out, its neighbour, a count of the tests, and the greatest.
CodecCounts == {I(0), I(1), I(2), I(4), U32Max}

CursorValues ==
    {CursorN(tag, n) : tag \in DOMAIN CursorControl, n \in CodecCounts}
    \cup {CursorAt(tag, line, col) :
            tag \in {"ActivePositionReport", "Position"},
            line \in CodecCounts, col \in CodecCounts}
    \cup {CursorTab(mode) : mode \in DOMAIN CursorTabulationControl}

SgrValuesOfCodec ==
    DOMAIN FixedSgrCode
    \cup {SgrFontAlt(n) : n \in U8Values}
    \cup {SgrPalette(tag, idx) :
            tag \in {"Foreground", "Background"}, idx \in U8Values}
    \cup {SgrTrueColor(tag, r, g, b) :
            tag \in {"Foreground", "Background"}, r \in {0, 1, 128, 255},
            g \in {0, 1, 128, 255}, b \in {0, 1, 128, 255}}

\* A Vec<CSI> of one typed action; there is no parser yet.
CodecInit ==
    /\ \/ \E c \in CursorValues : actions = <<CsiCursor(c)>>
       \/ \E v \in SgrValuesOfCodec : actions = <<CsiSgr(v)>>
    /\ pc = "value"
    /\ control = 0
    /\ intermediates = <<>>
    /\ ignored_extra_intermediates = FALSE
    /\ params = None
    /\ input = <<>>
    /\ seen = <<>>
    /\ panicked = FALSE
    /\ after_end = 0
    /\ encoded = <<>>
    /\ redecoded = <<>>
    /\ ColorIdle

\* encode(&actions)
EncodeValue ==
    /\ pc = "value"
    /\ encoded' = EncodeAll(actions)
    /\ pc' = "value_encoded"
    /\ UNCHANGED <<color_vars, control, intermediates,
                   ignored_extra_intermediates, params,
                   input, actions, seen, panicked, after_end, redecoded>>

\* The encoded bytes are tokenized and each unit is classified.
DecodeValue ==
    /\ pc = "value_encoded"
    /\ redecoded' = Decode(encoded)
    /\ pc' = "value_decoded"
    /\ UNCHANGED <<color_vars, control, intermediates,
                   ignored_extra_intermediates, params,
                   input, actions, seen, panicked, after_end, encoded>>

CodecNext == EncodeValue \/ DecodeValue

CodecSpec == CodecInit /\ [][CodecNext]_vars

\* The colour value was encoded and decoded.
ColourDecoded ==
    /\ pc = "value_decoded"
    /\ actions[1].kind = "Sgr"
    /\ actions[1].sgr.tag \in {"Foreground", "Background"}
    /\ actions[1].sgr.arg \in {"PaletteIndex", "TrueColor"}

\* The text after ESC [
EncodedBody == SubSeq(encoded, 3, Len(encoded))

\* The bytes the claim gives for a colour: base is 30 or 40, selector 38 or 48
ColourTextOf(v, base, selector) ==
    IF v.arg = "TrueColor"
    THEN FmtNat(selector) \o <<Ascii.Semi, Ascii.Zero + 2, Ascii.Semi>>
         \o FmtNat(v.red) \o <<Ascii.Semi>> \o FmtNat(v.green)
         \o <<Ascii.Semi>> \o FmtNat(v.blue) \o <<Ascii.m>>
    ELSE IF v.n < 8 THEN FmtNat(base + v.n) \o <<Ascii.m>>
    ELSE IF v.n <= 15 THEN FmtNat(base + 60 + (v.n - 8)) \o <<Ascii.m>>
    ELSE FmtNat(selector) \o <<Ascii.Semi, Ascii.Zero + 5, Ascii.Semi>>
         \o FmtNat(v.n) \o <<Ascii.m>>

\* C12: a palette index 0..15 is written as its short code (30+i, 90+(i-8)
\* for the foreground, 40+i, 100+(i-8) for the background) and 'm', an
\* index 16..255 as <selector>;5;<i>m, a true colour as
\* <selector>;2;<r>;<g>;<b>m, with selector 38 or 48; and what is written
\* decodes to the one Sgr value that was encoded.
C12_ColourEncoding ==
    ColourDecoded =>
        /\ encoded = <<Ascii.ESC, Ascii.LBracket>>
              \o (IF actions[1].sgr.tag = "Foreground"
                  THEN ColourTextOf(actions[1].sgr, 30, 38)
                  ELSE ColourTextOf(actions[1].sgr, 40, 48))
        /\ redecoded = actions

\* Background(PaletteIndex(15)) was written as ESC [ 107 m and decoded.
C12_Witness ==
    /\ pc = "value_decoded"
    /\ actions = <<CsiSgr(SgrPalette("Background", 15))>>
    /\ EncodedBody = <<49, 48, 55, Ascii.m>>
    /\ redecoded = actions

\* C18: every Cursor action that is encoded decodes to exactly that one
\* action.
C18_CursorRoundTrip ==
    (pc = "value_decoded" /\ actions[1].kind = "Cursor") =>
        redecoded = actions

\* The text is ESC [, a non-empty parameter text of digits and ';', and m.
CompleteSgrText(bs) ==
    /\ Len(bs) >= 4
    /\ bs[1] = Ascii.ESC
    /\ bs[2] = Ascii.LBracket
    /\ bs[Len(bs)] = Ascii.m
    /\ \A i \in 3..(Len(bs) - 1) : bs[i] \in ParamBytes

\* C19: every Sgr value, Font(Alternate(n)) for each n in 0..255 included,
\* is encoded as a complete escape sequence (ESC [, a non-empty parameter
\* text, 'm') that decodes to exactly that one Sgr value.
C19_SgrEncodesComplete ==
    (pc = "value_decoded" /\ actions[1].kind = "Sgr") =>
        /\ CompleteSgrText(encoded)
        /\ redecoded = actions

----------------------------------------------------------------------------
(* The colour operations: a colour is constructed, read as an 8-bit tuple, *)
(* written as a string and read back; or a string is given to from_rgb_str *)

MaxDigits == 5      \* hex digits per channel of the colour strings

\* Sequences over S of length n
SeqsOfLen(S, n) == {s \in SeqsUpTo(S, n) : Len(s) = n}

Rep(c, n) == [i \in 1..n |-> c]

\* Constructor arguments: one channel takes every value of `all`, the
\* other two a pair of `pairs`.
ChannelArgs(all, pairs) ==
    {<<v, p[1], p[2]>> : v \in all, p \in pairs}
    \cup {<<p[1], v, p[2]>> : v \in all, p \in pairs}
    \cup {<<p[1], p[2], v>> : v \in all, p \in pairs}

HexAll == (48..57) \cup (65..70) \cup (97..102)

\* The first hex group of width d
GroupsOf(d) ==
    SeqsOfLen(IF d <= 2 THEN HexAll
              ELSE IF d <= 4 THEN {Ch.Zero, Ch.Zero + 7, Ch.a, Ch.F}
              ELSE {Ch.a},
              d)

\* Three groups of one width, the second and third being the first, zeros
\* or F's; and three groups of every combination of widths
GroupTriples ==
    UNION {{<<g, h, k>> :
                h \in {g, Rep(Ch.Zero, Len(g)), Rep(Ch.F, Len(g))},
                k \in {g, Rep(Ch.Zero, Len(g)), Rep(Ch.F, Len(g))}} :
            g \in UNION {GroupsOf(d) : d \in 1..MaxDigits}}
    \cup {<<Rep(Ch.a, d1), Rep(Ch.Zero + 7, d2), Rep(Ch.F, d3)>> :
            d1 \in 1..MaxDigits, d2 \in 1..MaxDigits, d3 \in 1..MaxDigits}

HashOf(t) == <<Ch.Hash>> \o t[1] \o t[2] \o t[3]
RgbOf(t) == RgbPrefix \o t[1] \o <<Ch.Slash>> \o t[2] \o <<Ch.Slash>> \o t[3]

\* Strings of every length: zeros after the prefix, and the prefixes of
\* a well-formed string
LengthStrings ==
    {<<Ch.Hash>> \o Rep(Ch.Zero, n) : n \in 0..(3 * MaxDigits + 1)}
    \cup {RgbPrefix \o Rep(Ch.Zero, n) : n \in 0..(3 * MaxDigits + 3)}
    \cup {SubSeq(RgbOf(<<Rep(Ch.F, 2), Rep(Ch.F, 2), Rep(Ch.F, 2)>>), 1, n) :
            n \in 0..11}
    \cup {SubSeq(HashOf(<<Rep(Ch.F, 2), Rep(Ch.F, 2), Rep(Ch.F, 2)>>), 2, n) :
            n \in 2..7}

\* Well-formed strings in which characters are then replaced
BaseStrings ==
    UNION {{HashOf(<<g, g, g>>), RgbOf(<<g, g, g>>)} :
            g \in UNION {SeqsOfLen({Ch.Zero, Ch.F}, d) : d \in 1..4}}

\* A base string with one character replaced, and with two adjacent
\* characters replaced by a single one of two bytes
ReplacedStrings ==
    UNION {{[s EXCEPT ![k] = c] :
                k \in 2..Len(s),
                c \in {Ch.g, Ch.G, Ch.Slash, Ch.Space, Ch.Zero, Ch.EAcute}} :
            s \in BaseStrings}
    \cup UNION {{SubSeq(s, 1, k - 1) \o <<Ch.EAcute>>
                    \o SubSeq(s, k + 2, Len(s)) : k \in 1..(Len(s) - 1)} :
                 s \in BaseStrings}

ColorStrings ==
    {HashOf(t) : t \in GroupTriples} \cup {RgbOf(t) : t \in GroupTriples}
    \cup LengthStrings \cup ReplacedStrings

csi_vars == <<control, intermediates, ignored_extra_intermediates, params,
              input, actions, seen, panicked, after_end, encoded, redecoded>>

\* No CSI unit is being parsed or encoded; a constructor is about to be
\* called, or a string is about to be parsed.
ColorInit ==
    /\ control = 0
    /\ intermediates = <<>>
    /\ ignored_extra_intermediates = FALSE
    /\ params = None
    /\ input = <<>>
    /\ actions = <<>>
    /\ seen = <<>>
    /\ panicked = FALSE
    /\ after_end = 0
    /\ encoded = <<>>
    /\ redecoded = <<>>
    /\ rgb = NoColor
    /\ rgb8 = <<>>
    /\ parsed = NoColor
    /\ \/ /\ pc = "color_args"
          /\ rgb_text = <<>>
          /\ \/ \E t \in ChannelArgs(0..255, {<<0, 255>>, <<255, 0>>}) :
                   rgb_args = [ctor |-> "new_8bpc", red |-> t[1],
                               green |-> t[2], blue |-> t[3]]
             \/ \E t \in ChannelArgs((0..1025) \cup {2047, 32768, 65535},
                                       {<<1, 65535>>, <<65535, 1>>}) :
                   rgb_args = [ctor |-> "new_10bpc", red |-> t[1],
                               green |-> t[2], blue |-> t[3]]
       \/ /\ pc = "color_text"
          /\ rgb_args = [ctor |-> "", red |-> 0, green |-> 0, blue |-> 0]
          /\ rgb_text \in ColorStrings

\* RgbColor::new_8bpc(red, green, blue)
New8bpc ==
    /\ pc = "color_args"
    /\ rgb_args.ctor = "new_8bpc"
    /\ rgb' = SomeColor(new_8bpc(rgb_args.red, rgb_args.green, rgb_args.blue))
    /\ pc' = "color"
    /\ UNCHANGED <<csi_vars, rgb_args, rgb8, rgb_text, parsed>>

\* RgbColor::new_10bpc(red, green, blue)
New10bpc ==
    /\ pc = "color_args"
    /\ rgb_args.ctor = "new_10bpc"
    /\ rgb' = SomeColor(new_10bpc(rgb_args.red, rgb_args.green, rgb_args.blue))
    /\ pc' = "color"
    /\ UNCHANGED <<csi_vars, rgb_args, rgb8, rgb_text, parsed>>

\* rgb.to_tuple_rgb8()
ToTupleRgb8 ==
    /\ pc = "color"
    /\ rgb8' = to_tuple_rgb8(rgb.color)
    /\ pc' = "tuple"
    /\ UNCHANGED <<csi_vars, rgb_args, rgb, rgb_text, parsed>>

\* Serialize: rgb.to_rgb_string()
ToRgbString ==
    /\ pc = "tuple"
    /\ rgb_text' = to_rgb_string(rgb.color)
    /\ pc' = "string"
    /\ UNCHANGED <<csi_vars, rgb_args, rgb, rgb8, parsed>>

\* Deserialize: RgbColor::from_named_or_rgb_string(&s)
FromNamedOrRgbString ==
    /\ pc = "string"
    /\ parsed' = from_named_or_rgb_string(rgb_text)
    /\ pc' = "reparsed"
    /\ UNCHANGED <<csi_vars, rgb_args, rgb, rgb8, rgb_text>>

\* RgbColor::from_rgb_str(s)
FromRgbStr ==
    /\ pc = "color_text"
    /\ parsed' = from_rgb_str(rgb_text)
    /\ pc' = "parsed"
    /\ UNCHANGED <<csi_vars, rgb_args, rgb, rgb8, rgb_text>>

ColorNext ==
    \/ New8bpc
    \/ New10bpc
    \/ ToTupleRgb8
    \/ ToRgbString
    \/ FromNamedOrRgbString
    \/ FromRgbStr

ColorSpec == ColorInit /\ [][ColorNext]_vars

\* The arguments of the constructor call, in order
ArgsOf == <<rgb_args.red, rgb_args.green, rgb_args.blue>>

\* round(v / 1023 * 255); v * 255 / 1023 is never half-way between integers
RoundTenToEight(v) == (2 * v * 255 + 1023) \div (2 * 1023)

\* C13: to_tuple_rgb8 of a colour made by new_10bpc is, for each channel
\* given a value v in 0..1023, round(v / 1023 * 255); of a colour made by
\* new_8bpc it is the three components given.
C13_TupleRgb8Rounds ==
    (pc \in {"tuple", "string", "reparsed"}) =>
        IF rgb_args.ctor = "new_8bpc" THEN rgb8 = ArgsOf
        ELSE \A i \in 1..3 :
                ArgsOf[i] <= 1023 => rgb8[i] = RoundTenToEight(ArgsOf[i])

\* The value of a hex digit, by its place among the digits
HexValue(c) ==
    IF c \in 48..57 THEN c - 48
    ELSE IF c \in {65, 97} THEN 10
    ELSE IF c \in {66, 98} THEN 11
    ELSE IF c \in {67, 99} THEN 12
    ELSE IF c \in {68, 100} THEN 13
    ELSE IF c \in {69, 101} THEN 14
    ELSE 15

\* The big-endian value of the d hex digits of s from position p
RECURSIVE GroupValue(_, _, _)
GroupValue(s, p, d) ==
    IF d = 0 THEN 0
    ELSE GroupValue(s, p, d - 1) * 16 + HexValue(s[p + d - 1])

\* s is '#' and three groups of d hex digits
IsHashOfWidth(s, d) ==
    /\ Len(s) = 1 + 3 * d
    /\ s[1] = Ch.Hash
    /\ \A i \in 2..Len(s) : s[i] \in HexAll

\* The channel the `#` form gives a group of d digits of value v
HashChannel(v, d) ==
    IF d = 1 THEN (v * 16) % 256
    ELSE IF d = 2 THEN v
    ELSE IF d = 3 THEN v \div 16
    ELSE v \div 256

\* The colour is stored at 8 bits per channel and is (r, g, b).
IsRgb8(c, r, g, b) == ~c.msb /\ c.low = r * 65536 + g * 256 + b

\* C14: from_rgb_str of '#' and 3 * d hex digits, d in 1..4, is the 8-bit
\* colour whose channels are the groups' values mapped by (v<<4) mod 256,
\* v, v>>4, v>>8 for d = 1, 2, 3, 4; of any other string that begins with
\* '#' it is absent; and the call never aborts.
C14_HashForm ==
    (pc = "parsed" /\ rgb_text # <<>> /\ rgb_text[1] = Ch.Hash) =>
        /\ ~parsed.panic
        /\ \A d \in 1..4 :
              IsHashOfWidth(rgb_text, d) =>
                  /\ parsed.some
                  /\ IsRgb8(parsed.color,
                            HashChannel(GroupValue(rgb_text, 2, d), d),
                            HashChannel(GroupValue(rgb_text, 2 + d, d), d),
                            HashChannel(GroupValue(rgb_text, 2 + 2 * d, d), d))
        /\ (\A d \in 1..4 : ~IsHashOfWidth(rgb_text, d)) => parsed = NoColor

\* from_rgb_str("#FFF") returned #f0f0f0.
C14_Witness ==
    /\ pc = "parsed"
    /\ rgb_text = <<Ch.Hash, Ch.F, Ch.F, Ch.F>>
    /\ parsed.some
    /\ IsRgb8(parsed.color, 240, 240, 240)

\* s is "rgb:" and three groups of d hex digits separated by '/'
IsRgbOfWidth(s, d) ==
    /\ Len(s) = 6 + 3 * d
    /\ SubSeq(s, 1, 4) = RgbPrefix
    /\ s[5 + d] = Ch.Slash
    /\ s[6 + 2 * d] = Ch.Slash
    /\ \A i \in 5..Len(s) : i \notin {5 + d, 6 + 2 * d} => s[i] \in HexAll

\* The channel the `rgb:` form gives a group of d digits of value v
RgbChannel(v, d) ==
    IF d = 1 THEN v * 17
    ELSE IF d = 2 THEN v
    ELSE IF d = 3 THEN v \div 16
    ELSE v \div 256

\* C15: from_rgb_str of "rgb:" and three groups of d hex digits separated
\* by '/', d in 1..4, is the 8-bit colour whose channels are the groups'
\* values mapped by v | (v<<4), v, v>>4, v>>8 for d = 1, 2, 3, 4; of any
\* other string that begins with "rgb:" (a slash missing or out of place,
\* groups of unequal width or wider than 4, a character that is no hex
\* digit) it is absent; and the call never aborts.
C15_RgbForm ==
    (pc = "parsed" /\ Len(rgb_text) >= 4 /\ SubSeq(rgb_text, 1, 4) = RgbPrefix)
    =>  /\ ~parsed.panic
        /\ \A d \in 1..4 :
              IsRgbOfWidth(rgb_text, d) =>
                  /\ parsed.some
                  /\ IsRgb8(parsed.color,
                            RgbChannel(GroupValue(rgb_text, 5, d), d),
                            RgbChannel(GroupValue(rgb_text, 6 + d, d), d),
                            RgbChannel(GroupValue(rgb_text, 7 + 2 * d, d), d))
        /\ (\A d \in 1..4 : ~IsRgbOfWidth(rgb_text, d)) => parsed = NoColor

\* from_rgb_str("rgb:a/a/F") returned #aaaaff.
C15_Witness ==
    /\ pc = "parsed"
    /\ rgb_text = RgbPrefix \o <<Ch.a, Ch.Slash, Ch.a, Ch.Slash, Ch.F>>
    /\ parsed.some
    /\ IsRgb8(parsed.color, 170, 170, 255)

\* The 10-bit channels stored in a colour, in order
StoredTen(c) ==
    <<(c.low \div Pow2(20)) % 1024, (c.low \div Pow2(10)) % 1024,
      c.low % 1024>>

\* C16: new_10bpc stores min(component, 1023) for each of red, green and
\* blue, and sets the tag bit, whatever the other components are.
C16_New10bpcClamps ==
    (pc \in {"color", "tuple", "string", "reparsed"}
        /\ rgb_args.ctor = "new_10bpc") =>
        /\ rgb.some
        /\ rgb.color.msb
        /\ rgb.color.low < Pow2(30)
        /\ \A i \in 1..3 :
              StoredTen(rgb.color)[i] =
                  IF ArgsOf[i] < 1023 THEN ArgsOf[i] ELSE 1023

\* C17: for every RgbColor c, stored at 8 or at 10 bits per channel,
\* from_named_or_rgb_string(to_rgb_string(c)) is a colour equal to c.
C17_StringRoundTrip ==
    pc = "reparsed" => (parsed.some /\ parsed.color = rgb.color)

----------------------------------------------------------------------------
(* The accounting of the parameters over the whole scan *)

\* The parameters not yet taken by a call of next()
Pending == IF params.some THEN params.slice ELSE <<>>

\* The number of parameters that step i left for the steps after it
LeftBy(i) == IF i < Len(seen) THEN Len(seen[i + 1]) ELSE Len(Pending)

\* The parameters that the action of step i accounts for: the params of an
\* Unspecified action, and for a recognised action the head of its slice
\* that it did not leave to the steps after it.
ConsumedBy(i) ==
    IF actions[i].kind = "Unspecified" THEN actions[i].params
    ELSE SubSeq(seen[i], 1, Len(seen[i]) - LeftBy(i))

\* What the actions 1..i account for, in the order of the actions
RECURSIVE Accounted(_)
Accounted(i) == IF i = 0 THEN <<>> ELSE Accounted(i - 1) \o ConsumedBy(i)

\* The action of step i is the only action of its parameters taken alone.
AloneYields(i) ==
    Collect(ConsumedBy(i), intermediates, ignored_extra_intermediates,
            control) = <<actions[i]>>

\* The accounting common to C21 as stated and as amended: what the actions
\* so far account for, followed by the pending parameters, is the input;
\* a Cursor action takes the whole input and is the only action; an
\* Unspecified action is the last; a recognised action is what its own
\* parameters yield alone; 5 parameters are taken by a TrueColor and 3 by a
\* PaletteIndex after a colour selector, and by nothing else.
ParametersAccounted ==
    /\ Len(actions) = Len(seen)
    /\ Accounted(Len(actions)) \o Pending = input
    /\ \A i \in Steps :
          /\ actions[i].kind = "Cursor" =>
                ConsumedBy(i) = input /\ Len(actions) = 1 /\ ~params.some
          /\ actions[i].kind = "Unspecified" =>
                i = Len(actions) /\ ~params.some
          /\ actions[i].kind # "Unspecified" => AloneYields(i)
          /\ actions[i].kind = "Sgr" =>
                /\ Len(ConsumedBy(i)) = 5 <=>
                      actions[i].sgr.arg = "TrueColor"
                /\ Len(ConsumedBy(i)) = 3 <=>
                      /\ actions[i].sgr.arg = "PaletteIndex"
                      /\ SgrCodeFromI64(seen[i][1])
                            \in {"ForegroundColor", "BackgroundColor"}

\* C21 as stated: the parameters of the successive actions concatenate to
\* the input, a Cursor action taking all of them and every Sgr action
\* taking 1, 3 or 5 of them.
C21_EveryParameterOnce ==
    /\ ParametersAccounted
    /\ \A i \in Steps :
          actions[i].kind = "Sgr" => Len(ConsumedBy(i)) \in {1, 3, 5}

\* C21 amended: the parameters of the successive actions concatenate to the
\* input, a Cursor action taking all of them and an Sgr action taking 1, 3
\* or 5 of them, except the Reset of an empty parameter list, which takes
\* none and is the only action.
C21_EveryParameterOnceOrNone ==
    /\ ParametersAccounted
    /\ \A i \in Steps :
          actions[i].kind = "Sgr" =>
              IF input = <<>>
              THEN /\ ConsumedBy(i) = <<>>
                   /\ actions = <<CsiSgr(SgrReset)>>
                   /\ ~params.some
              ELSE Len(ConsumedBy(i)) \in {1, 3, 5}

\* A scan of five parameters ended with three actions: one parameter, then
\* three for a palette colour, then the last one in an Unspecified.
C21_Witness ==
    /\ Len(input) = 5
    /\ Len(actions) = 3
    /\ ~params.some
    /\ Len(ConsumedBy(1)) = 1
    /\ Len(ConsumedBy(2)) = 3
    /\ actions[2].sgr.arg = "PaletteIndex"
    /\ actions[3].kind = "Unspecified"
    /\ actions[3].params = <<input[5]>>

----------------------------------------------------------------------------
(* The arms of W, R and H *)

\* The modes of CursorTabulationControl in the order of their codes 0..6
TabulationModes ==
    <<"SetCharacterTabStopAtActivePosition", "SetLineTabStopAtActiveLine",
      "ClearCharacterTabStopAtActivePosition", "ClearLineTabstopAtActiveLine",
      "ClearAllCharacterTabStopsAtActiveLine", "ClearAllCharacterTabStops",
      "ClearAllLineTabStops">>

\* v is one of the codes 0..6
IsTabulationCode(v) == ~v.neg /\ Len(v.mag) = 1 /\ v.mag[1] <= 6

\* The first call of next() on a unit of control ctl was made.
ClassifiedAs(ctl) == control = ctl /\ Len(seen) >= 1 /\ Len(actions) >= 1

\* C22: 'W' with no intermediates and one parameter n yields the one action
\* Cursor::TabulationControl of the mode whose code is n when n is in 0..6,
\* and one Unspecified holding [n] for every other n, negative or 7 and
\* more; 'W' with two or more parameters yields one Unspecified holding
\* them all.
C22_TabulationModes ==
    (ClassifiedAs(Ascii.W) /\ intermediates = <<>> /\ Len(input) >= 1) =>
        /\ Len(actions) = 1
        /\ ~params.some
        /\ actions[1] =
              IF Len(input) = 1 /\ IsTabulationCode(input[1])
              THEN CsiCursor(CursorTab(TabulationModes[input[1].mag[1] + 1]))
              ELSE UnspecifiedOf(input)

\* CSI 6 W was classified as the last mode, ClearAllLineTabStops.
C22_Witness ==
    /\ ClassifiedAs(Ascii.W)
    /\ intermediates = <<>>
    /\ input = <<I(6)>>
    /\ actions = <<CsiCursor(CursorTab("ClearAllLineTabStops"))>>

\* CSI 7 W was classified as one Unspecified holding [7].
C22_WitnessOutOfRange ==
    /\ ClassifiedAs(Ascii.W)
    /\ intermediates = <<>>
    /\ input = <<I(7)>>
    /\ actions = <<UnspecifiedOf(<<I(7)>>)>>

\* The Cursor variant of R and of H
PositionVariant(ctl) ==
    IF ctl = Ascii.R THEN "ActivePositionReport" ELSE "Position"

\* C24: R and H yield one action. It is ActivePositionReport{line, col}
\* for R and Position{line, col} for H, line the first parameter and col the
\* second, only when there are no intermediates and exactly two parameters
\* (and then whenever both are in 0..4294967295); with 0, 1, 3 or more
\* parameters, or with any intermediates, it is one Unspecified holding all
\* the parameters.
C24_PositionNeedsTwo ==
    (ClassifiedAs(Ascii.R) \/ ClassifiedAs(Ascii.H)) =>
        /\ Len(actions) = 1
        /\ ~params.some
        /\ actions[1].kind = "Cursor" =>
              /\ Len(input) = 2
              /\ intermediates = <<>>
        /\ (Len(input) # 2 \/ intermediates # <<>>) =>
              actions[1] = UnspecifiedOf(input)
        /\ (Len(input) = 2 /\ intermediates = <<>>
                /\ ~OutOfU32(input[1]) /\ ~OutOfU32(input[2])) =>
              actions[1] = CsiCursor(CursorAt(PositionVariant(control),
                                              input[1], input[2]))

\* CSI 0 ; 6 H was classified as Position{line: 0, col: 6}.
C24_Witness ==
    /\ ClassifiedAs(Ascii.H)
    /\ intermediates = <<>>
    /\ input = <<I(0), I(6)>>
    /\ actions = <<CsiCursor(CursorAt("Position", I(0), I(6)))>>

\* CSI 0 ; 6 ; 1 R was classified as one Unspecified holding all three.
C24_WitnessThree ==
    /\ ClassifiedAs(Ascii.R)
    /\ intermediates = <<>>
    /\ input = <<I(0), I(6), I(1)>>
    /\ actions = <<UnspecifiedOf(input)>>

----------------------------------------------------------------------------
(* The text of the Cursor actions *)

\* A Cursor value was encoded.
CursorEncoded ==
    /\ pc \in {"value_encoded", "value_decoded"}
    /\ actions[1].kind = "Cursor"

\* The decimal digits of a non-negative value as characters
Decimal(v) == [i \in 1..Len(v.mag) |-> Ascii.Zero + v.mag[i]]

\* The value of a Cursor action that has one: the count, or the mode's code
ValueOf(c) ==
    IF c.tag = "TabulationControl" THEN I(CursorTabulationControl[c.mode])
    ELSE c.n

\* The control character of a Cursor action
ControlOf(c) ==
    IF c.tag = "TabulationControl" THEN Ascii.W
    ELSE IF c.tag = "ActivePositionReport" THEN Ascii.R
    ELSE IF c.tag = "Position" THEN Ascii.H
    ELSE CursorControl[c.tag]

\* C23: after ESC [ a Cursor action with one value is written as its
\* control character alone when the value is 1 and as the decimal value and
\* the control character otherwise, 0 included (Right(1) is C, Right(4) is
\* 4C, Right(0) is 0C); Position and ActivePositionReport are written as
\* <line>;<col> and H or R, both fields always present.
C23_CursorText ==
    CursorEncoded =>
        LET c == actions[1].cursor
        IN  /\ SubSeq(encoded, 1, 2) = <<Ascii.ESC, Ascii.LBracket>>
            /\ EncodedBody =
                  IF c.tag \in {"ActivePositionReport", "Position"}
                  THEN Decimal(c.line) \o <<Ascii.Semi>> \o Decimal(c.col)
                       \o <<ControlOf(c)>>
                  ELSE IF ValueOf(c) = I(1) THEN <<ControlOf(c)>>
                  ELSE Decimal(ValueOf(c)) \o <<ControlOf(c)>>
            /\ c = CursorN("Right", I(1)) => EncodedBody = <<67>>
            /\ c = CursorN("Right", I(4)) => EncodedBody = <<52, 67>>
            /\ c = CursorN("Right", I(0)) => EncodedBody = <<48, 67>>
            /\ c = CursorAt("Position", I(1), I(1)) =>
                  EncodedBody = <<49, 59, 49, 72>>

\* Right(0) was written as ESC [ 0 C.
C23_Witness ==
    /\ CursorEncoded
    /\ actions = <<CsiCursor(CursorN("Right", I(0)))>>
    /\ encoded = <<27, 91, 48, 67>>

\* Position{line: 1, col: 1} was written as ESC [ 1 ; 1 H.
C23_WitnessPosition ==
    /\ CursorEncoded
    /\ actions = <<CsiCursor(CursorAt("Position", I(1), I(1)))>>
    /\ encoded = <<27, 91, 49, 59, 49, 72>>
====
